---- MODULE Spec2Model ----
(***************************************************************************)
(* Model of the pg-mcp natural-language-to-SQL gateway (src/w5/pg-mcp):    *)
(* the SQL validator, the access-control rewriter, the per-database        *)
(* executor with its retry wrapper and EXPLAIN gate, and the query         *)
(* pipeline of the `query` tool.                                           *)
(*                                                                         *)
(* SQL text is modelled by what sqlglot makes of it: a value               *)
(* [kind, tree, pretty] where kind tells whether sqlglot.parse_one parses  *)
(* the text, tree is the parsed statement tree and pretty tells whether    *)
(* the text is in the generator's layout.  A statement tree is a sequence  *)
(* of statement nodes, tree[1] the root and tree[i+1] nested directly in   *)
(* tree[i], so the sequence order is the breadth-first order find_all and  *)
(* walk use.                                                               *)
(***************************************************************************)
EXTENDS Integers, Sequences, FiniteSets, TLC

VARIABLES
    \* ---- inputs and results of the pure SQL functions (SpecSQL) ----
    in_sql,         \* SQL text handed to validate_sql / rewrite_and_validate
    in_policy,      \* DatabaseAccessPolicy of the rewriter
    validation,     \* result of validate_sql(in_sql), None before the call
    formatted,      \* result of format_sql(in_sql), None before the call
    security,       \* result of rewrite_and_validate(in_sql), None before the call
    \* ---- configuration (settings) ----
    load_on_startup,    \* settings.schema_cache.load_on_startup
    default_database,   \* settings.server.default_database
    explain_cfg,        \* (require_explain, max_explain_cost) of the guarded policy
    \* ---- one call of the query tool ----
    pc,             \* position of the request in query() / process_query()
    nreq,           \* number of requests started
    req_database,   \* the `database` argument of query()
    db_name,        \* resolved database name
    sql,            \* SQL drafted by generate_sql
    formatted_sql,  \* format_sql(sql)
    results,        \* number of rows execute_query returned
    oracle_reply,   \* what the sanity oracle replied to validate_results; "" when it was not asked and once the response is built
    response,       \* what the request ended with: <<>> or <<result>>
    raised,         \* <<>> or <<[stage, exc]>>: what a collaborator raised into process_query
    draft_attempt,  \* attempt index of retry_on_api_error around generate_sql
    exec_attempt,   \* attempt index of retry_on_db_error around execute_query
    stages,         \* history: stages entered by this request, in order
    exec_log,       \* history: one record per attempt of execute_query
    \* ---- rate limiter ----
    rl_config,      \* RateLimiter.config: enabled, max_requests, time_window
    records,        \* RateLimiter.records: key -> timestamps
    now,            \* time.time()
    \* ---- tasks calling the rate limiter directly (SpecRL) ----
    task,           \* per task: where it is in check_rate_limit
    lock,           \* RateLimiter._lock: the task holding it, 0 when free
    probes,         \* history: the calls that returned, in order
    usage,          \* <<the answer get_current_usage just gave>>, <<>> once the limiter moved on
    \* ---- the components called on their own ----
    called,         \* <<the limiter call just made: op, key>>, <<>> once the clock moved on (SpecKeys)
    retry,          \* one call through a retry wrapper (SpecRetry)
    registry,       \* MultiDatabaseExecutorManager, its executors and their pools (SpecRegistry)
    cache,          \* SchemaCache, its loader and its readers (SpecCache)
    fetched,        \* rows conn.fetch answered, the max_rows argument and the results returned (SpecRows)
    \* ---- the tools of the server and their metrics ----
    collector,      \* MetricsCollector: counters, histograms and what was last asked of it
    server          \* the server's globals and the tasks calling its tools

sqlvars == <<in_sql, in_policy, validation, formatted, security>>
cfgvars == <<load_on_startup, default_database, explain_cfg, rl_config>>
reqvars == <<pc, nreq, req_database, db_name, sql, formatted_sql, results,
             oracle_reply, response, raised, draft_attempt, exec_attempt, stages, exec_log>>
rlvars  == <<records, now>>
taskvars == <<task, lock, probes, usage>>
partvars == <<called, retry, registry, cache, fetched>>
toolvars == <<collector, server>>
vars    == <<sqlvars, cfgvars, reqvars, rlvars, taskvars, partvars, toolvars>>

None == "None"

\* ---------------------------------------------------------------- bounds
MaxDepth == 2            \* statements nested below the root of a tree
MaxRequests == 2         \* calls of the query tool in one behaviour
MaxTime == 1             \* last clock value
MaxRowsFetched == 1      \* rows the database returns for a query
MaxPlanCost == 2         \* largest planner total cost
MaxRequestsPerWindow == 1    \* RateLimitConfig.max_requests
TimeWindow == 1              \* RateLimitConfig.time_window, in clock ticks
MaxLimit == 2            \* largest max_requests of a limiter probed directly
MaxWindow == 2           \* largest time_window of a limiter probed directly
MaxClock == 2            \* last clock value while the limiter is probed directly
MaxTasks == 2            \* tasks calling the limiter concurrently
MaxAttempts == 3          \* largest max_attempts of a retry wrapper called on its own
MaxResultRows == 3        \* most rows conn.fetch answers when the truncation is called on its own
MaxPools == 3             \* connection pools created in one behaviour of the registry
MaxCloses == 2            \* close() calls one pool receives
HistogramLimit == 2       \* samples a histogram keeps (the code keeps 1000)
MaxMetricCalls == 4       \* increment and record_histogram calls in one behaviour
MaxCallers == 3           \* tasks calling the server's tools concurrently
MaxCalls == 3            \* limiter calls in one behaviour

\* ------------------------------------------------------------ sequences
Range(s) == {s[i] : i \in DOMAIN s}

\* ------------------------------------------------------------ SQL values
\* A table reference exp.Table: catalog.db.name AS alias ("" = absent).
Tbl(db, name, alias) == [catalog |-> "", db |-> db, name |-> name, alias |-> alias]

\* A column reference exp.Column: table is its qualifier ("" = unqualified).
Col(table, name) == [table |-> table, name |-> name]

\* A function call exp.Func: class "Anonymous" keeps the name as written in
\* `this`; a function sqlglot knows answers sql_name().
Fn(class, this, sql_name) == [class |-> class, this |-> this, sql_name |-> sql_name]

\* The exp.Column nodes of a WHERE clause whose conjuncts are bare column
\* names (WHERE active)
WhereColumns(where) == [i \in DOMAIN where |-> Col("", where[i])]

\* A statement node.  via tells how it hangs below its parent: as the root,
\* as an exp.Subquery, or as an exp.CTE of a WITH clause.
\* cols of the node: every exp.Column below it that find_all(exp.Column)
\* yields, those of the projection followed by those of its WHERE clause.
\* star: the projection holds a bare `*`, an exp.Star that is no exp.Column.
\* projected and written: how many columns the projection holds and how many
\* conjuncts the WHERE clause was written with; merged: for each column a
\* merged row filter brought in, the number of the merge that brought it.
Stmt(kind, via, tables, cols, where, funcs) ==
    [kind |-> kind, via |-> via, tables |-> tables,
     cols |-> cols \o WhereColumns(where),
     where |-> where, funcs |-> funcs, star |-> FALSE,
     projected |-> Len(cols), written |-> Len(where), merged |-> <<>>]

\* SELECT * FROM <tables>: the star is the whole projection
SelectStar(tables) ==
    [Stmt("Select", "root", tables, <<>>, <<>>, <<>>) EXCEPT !.star = TRUE]

\* SQL text.  kind "none" is Python's None, "garbage" is text parse_one
\* rejects with a ParseError, "sql" is text that parses to `tree`.
NoSql == [kind |-> "none", tree |-> <<>>, pretty |-> FALSE]
Garbage == [kind |-> "garbage", tree |-> <<>>, pretty |-> FALSE]
\* Text parse_one rejects with an exception that is no ParseError: the
\* tokenizer's TokenError for an unterminated literal (SELECT 'abc)
Unterminated == [kind |-> "unterminated", tree |-> <<>>, pretty |-> FALSE]
RawSql(tree) == [kind |-> "sql", tree |-> tree, pretty |-> FALSE]
PrettySql(tree) == [kind |-> "sql", tree |-> tree, pretty |-> TRUE]

\* parse_one(sql, dialect="postgres") raises sqlglot.errors.ParseError
Parses(s) == s.kind = "sql"

\* parsed.sql(dialect="postgres", pretty=True)
Generate(tree) == PrettySql(tree)

\* str.lower() over the function-name spellings of the model
Lower(s) ==
    CASE s = "PG_READ_FILE" -> "pg_read_file"
      [] s = "Set_Config" -> "set_config"
      [] s = "COUNT" -> "count"
      [] s = "NOW" -> "now"
      [] OTHER -> s

\* f"{schema}.{table}"
QualifiedName(schema, table) == schema \o "." \o table

\* ------------------------------------------------- tree traversal (BFS)
\* parsed.find_all(exp.Table): positions <<statement, table>> in BFS order
RECURSIVE TableNodesFrom(_, _)
TableNodesFrom(tree, i) ==
    IF i > Len(tree) THEN <<>>
    ELSE [j \in 1..Len(tree[i].tables) |-> <<i, j>>] \o TableNodesFrom(tree, i + 1)

TableNodes(tree) == TableNodesFrom(tree, 1)

TableAt(tree, n) == tree[n[1]].tables[n[2]]

\* How deep statement i sits below the root.  A nested statement hangs
\* three nodes below a Select, in its FROM clause (From or Join, Subquery,
\* statement) or in its WITH clause (With, CTE, statement); below a Delete
\* the WITH clause is as deep, and a subquery hangs two nodes below, an
\* expression of the USING list (Subquery, statement)
RECURSIVE StmtDepth(_, _)
StmtDepth(tree, i) ==
    IF i = 1 THEN 0
    ELSE StmtDepth(tree, i - 1)
         + (IF tree[i].via = "Subquery" /\ tree[i - 1].kind = "Delete" THEN 2 ELSE 3)

\* How deep below its statement the column at position p of stmt.cols sits.
\* A projection column is a child of a Select; a Delete has no projection,
\* its columns outside the WHERE clause are those of the RETURNING clause
\* (Returning, Column).  The WHERE clause is
\* Where(condition); the written conjuncts form a left-deep chain of And
\* nodes, and each merge of _apply_row_filter replaces the condition by
\* exp.and_(condition, filter), which wraps an And operand in a Paren: after
\* m merges over a written condition the condition sits 2m nodes below the
\* Where (one more when it is itself an And), and the filter of merge j sits
\* 2 + 2(m - j) below it; without a written condition the first filter is
\* the condition.  The column of a filter is an operand of its comparison.
ColumnDepth(stmt, p) ==
    LET n == stmt.written
        m == Len(stmt.where) - n
        above == IF n = 0 THEN m - 1 ELSE m
        base == IF above <= 0 THEN 1
                ELSE 2 * above + (IF n >= 2 THEN 1 ELSE 0)
        conjunct(k) == IF n = 1 THEN base
                       ELSE IF k = 1 THEN base + n - 1
                       ELSE base + n - k + 1
        filter(j) == IF n = 0 /\ j = 1 THEN base ELSE 2 + 2 * (m - j)
    IN IF p <= stmt.projected THEN (IF stmt.kind = "Delete" THEN 2 ELSE 1)
       ELSE IF p <= stmt.projected + n THEN 1 + conjunct(p - stmt.projected)
       ELSE 1 + filter(stmt.merged[p - stmt.projected - n]) + 1

\* The place of a statement's arguments in iter_expressions, the order in
\* which the arguments were set.  Select: the projection, the FROM clause and
\* its joins, the WHERE clause the statement was written with, the WITH
\* clause, which the parser sets on the statement last, and the WHERE clause
\* _apply_row_filter creates on a statement written without one.  Delete:
\* the USING list, the WHERE clause, the RETURNING clause, the WITH clause.
ArgOrder(stmt, arg) ==
    IF stmt.kind = "Delete"
    THEN CASE arg = "Subquery" -> 1
           [] arg = "where" -> 2
           [] arg = "expressions" -> 3
           [] arg = "CTE" -> 4
    ELSE CASE arg = "expressions" -> 1
           [] arg = "Subquery" -> 2
           [] arg = "where" -> IF stmt.written > 0 THEN 3 ELSE 5
           [] arg = "CTE" -> 4

\* The exp.Column nodes of statement i on, each with its depth in the tree
\* and the argument of its statement it hangs below ("expressions": the
\* projection of a Select, the RETURNING clause of a Delete)
RECURSIVE ColumnNodesFrom(_, _)
ColumnNodesFrom(tree, i) ==
    IF i > Len(tree) THEN <<>>
    ELSE [p \in DOMAIN tree[i].cols |->
             [col |-> tree[i].cols[p], stmt |-> i, pos |-> p,
              depth |-> StmtDepth(tree, i) + ColumnDepth(tree[i], p),
              arg |-> IF p <= tree[i].projected THEN "expressions" ELSE "where"]]
         \o ColumnNodesFrom(tree, i + 1)

\* Whether bfs() yields node a before node b: the shallower node first;
\* at equal depth the nodes come in the order of their ancestors, which
\* part where the paths to them leave their common statement
YieldedBefore(tree, a, b) ==
    \/ a.depth < b.depth
    \/ /\ a.depth = b.depth
       /\ IF a.stmt = b.stmt
          THEN IF a.arg = b.arg THEN a.pos < b.pos
               ELSE ArgOrder(tree[a.stmt], a.arg) < ArgOrder(tree[a.stmt], b.arg)
          ELSE IF a.stmt < b.stmt
          THEN ArgOrder(tree[a.stmt], a.arg)
                   < ArgOrder(tree[a.stmt], tree[a.stmt + 1].via)
          ELSE ArgOrder(tree[b.stmt], tree[b.stmt + 1].via)
                   < ArgOrder(tree[b.stmt], b.arg)

\* parsed.find_all(exp.Column): the columns in breadth-first order
ColumnNodes(tree) ==
    LET yielded == SortSeq(ColumnNodesFrom(tree, 1),
                           LAMBDA a, b : YieldedBefore(tree, a, b))
    IN [k \in DOMAIN yielded |-> yielded[k].col]

\* parsed.find_all(exp.Func)
RECURSIVE FuncNodesFrom(_, _)
FuncNodesFrom(tree, i) ==
    IF i > Len(tree) THEN <<>>
    ELSE tree[i].funcs \o FuncNodesFrom(tree, i + 1)

FuncNodes(tree) == FuncNodesFrom(tree, 1)

\* ------------------------------------------------------------ validator
dangerous_function_names ==
    {"pg_read_file", "pg_write_file", "pg_execute", "copy",
     "pg_terminate_backend", "pg_cancel_backend", "set_config",
     "current_setting", "pg_reload_conf", "pg_rotate_logfile", "pg_ls_dir",
     "pg_read_binary_file", "pg_stat_file"}

FuncName(node) ==
    IF node.class = "Anonymous" THEN Lower(node.this) ELSE Lower(node.sql_name)

\* SQLValidator._check_dangerous_functions
CheckDangerousFunctions(parsed) ==
    SelectSeq([i \in 1..Len(FuncNodes(parsed)) |-> FuncName(FuncNodes(parsed)[i])],
              LAMBDA n : n \in dangerous_function_names)

\* SQLValidator._check_subqueries: the kinds of the non-SELECT statements
\* wrapped in an exp.Subquery; the code reports the first one.
CheckSubqueries(parsed) ==
    {i \in 1..Len(parsed) : parsed[i].via = "Subquery" /\ parsed[i].kind # "Select"}

\* SQLValidator.validate_sql
ValidateSql(s) ==
    IF s.kind \in {"garbage", "empty"}
    THEN [is_valid |-> FALSE, error |-> "SQL syntax error"]
    ELSE IF ~Parses(s)
    THEN [is_valid |-> FALSE, error |-> "SQL validation failed"]
    ELSE IF s.tree[1].kind # "Select"
    THEN [is_valid |-> FALSE, error |-> "Only SELECT queries are allowed"]
    ELSE IF CheckDangerousFunctions(s.tree) # <<>>
    THEN [is_valid |-> FALSE, error |-> "Dangerous functions detected"]
    ELSE IF CheckSubqueries(s.tree) # {}
    THEN [is_valid |-> FALSE, error |-> "Non-SELECT statement in subquery"]
    ELSE [is_valid |-> TRUE, error |-> None]

\* SQLValidator.format_sql: on any failure the original text comes back
FormatSql(s) == IF Parses(s) THEN Generate(s.tree) ELSE s


\* ------------------------------------------------------- access policy
\* TableAccessRule.  allowed_columns / denied_columns: {} stands for None
\* and for the empty list, which the code treats alike; row_filter: NoFilter
\* stands for None and "".
NoFilter == [text |-> "", parses |-> TRUE, cols |-> <<>>]

\* A row filter: its text, whether "SELECT * FROM t WHERE <text>" parses,
\* and the column references its condition holds.
Filter(text, cols) == [text |-> text, parses |-> TRUE, cols |-> cols]
BadFilter(text) == [text |-> text, parses |-> FALSE, cols |-> <<>>]

Rule(schema, table, allowed, denied, row_filter) ==
    [schema |-> schema, table |-> table, access_level |-> "read",
     allowed_columns |-> allowed, denied_columns |-> denied,
     row_filter |-> row_filter]

NoRule == Rule("", "", {}, {}, NoFilter)

\* TableAccessRule(..., access_level=AccessLevel.NONE)
NoAccess(rule) == [rule EXCEPT !.access_level = "none"]

\* DatabaseAccessPolicy; max_explain_cost: has_max_cost = FALSE is None.
Policy(name, rules, blocked, require_explain, has_max_cost, max_explain_cost) ==
    [database_name |-> name, default_access |-> "read", table_rules |-> rules,
     require_explain |-> require_explain, has_max_cost |-> has_max_cost,
     max_explain_cost |-> max_explain_cost, blocked_tables |-> blocked]

\* DatabaseAccessPolicy(..., default_access=AccessLevel.NONE)
DefaultNoAccess(policy) == [policy EXCEPT !.default_access = "none"]

\* DatabaseAccessPolicy.get_table_access: the first matching rule
GetTableAccess(policy, schema, table) ==
    LET hits == {i \in DOMAIN policy.table_rules :
                    /\ policy.table_rules[i].schema = schema
                    /\ policy.table_rules[i].table = table}
    IN IF hits = {} THEN NoRule
       ELSE policy.table_rules[CHOOSE i \in hits : \A j \in hits : i <= j]

\* DatabaseAccessPolicy.is_table_blocked
IsTableBlocked(policy, schema, table) ==
    \/ QualifiedName(schema, table) \in policy.blocked_tables
    \/ table \in policy.blocked_tables

\* DatabaseAccessPolicy.get_allowed_columns
GetAllowedColumns(policy, schema, table) ==
    GetTableAccess(policy, schema, table).allowed_columns

\* DatabaseAccessPolicy.get_denied_columns
GetDeniedColumns(policy, schema, table) ==
    GetTableAccess(policy, schema, table).denied_columns

\* DatabaseAccessPolicy.get_row_filter
GetRowFilter(policy, schema, table) ==
    GetTableAccess(policy, schema, table).row_filter

\* ------------------------------------------------- access-control rewriter
\* The schema the rewriter attributes to a table node:
\* table_node.catalog or "public"
TableSchema(table_node) ==
    IF table_node.catalog # "" THEN table_node.catalog ELSE "public"

\* The SELECT _apply_row_filter settles on for the table node of statement k:
\* the first SELECT of parsed.find_all(exp.Select) whose subtree holds the
\* node, i.e. the outermost SELECT among statement k and its ancestors;
\* 0 when there is none and the root is no SELECT.
FilterTarget(parsed, k) ==
    LET holding == {i \in 1..k : parsed[i].kind = "Select"}
    IN IF holding # {} THEN CHOOSE i \in holding : \A j \in holding : i <= j
       ELSE IF parsed[1].kind = "Select" THEN 1 ELSE 0

\* SQLAccessControlRewriter._apply_row_filter
ApplyRowFilter(parsed, k, row_filter) ==
    LET select == FilterTarget(parsed, k)
    IN IF select = 0 \/ ~row_filter.parses THEN parsed
       ELSE [parsed EXCEPT
                ![select].where = Append(@, row_filter.text),
                ![select].cols = @ \o row_filter.cols,
                ![select].merged =
                    @ \o [c \in DOMAIN row_filter.cols |->
                             Len(parsed[select].where) - parsed[select].written + 1]]

\* The table loop of rewrite_and_validate over the nodes still to visit
RECURSIVE WalkTables(_, _, _, _)
WalkTables(policy, nodes, parsed, blocked_tables) ==
    IF nodes = <<>> THEN [parsed |-> parsed, blocked_tables |-> blocked_tables]
    ELSE LET table_node == TableAt(parsed, Head(nodes))
             schema == TableSchema(table_node)
             table == table_node.name
             row_filter == GetRowFilter(policy, schema, table)
         IN IF IsTableBlocked(policy, schema, table)
            THEN WalkTables(policy, Tail(nodes), parsed,
                            Append(blocked_tables, QualifiedName(schema, table)))
            ELSE IF row_filter.text # ""
            THEN WalkTables(policy, Tail(nodes),
                            ApplyRowFilter(parsed, Head(nodes)[1], row_filter),
                            blocked_tables)
            ELSE WalkTables(policy, Tail(nodes), parsed, blocked_tables)

\* SQLAccessControlRewriter._get_table_for_column ("" stands for None)
GetTableForColumn(col_node, parsed) ==
    IF col_node.table # "" THEN col_node.table
    ELSE IF TableNodes(parsed) = <<>> THEN ""
    ELSE TableAt(parsed, TableNodes(parsed)[1]).name

\* SQLAccessControlRewriter._split_table_name; the one dotted identifier of
\* the model is the quoted qualifier "secret.vault"
SplitTableName(table_name) ==
    IF table_name = "secret.vault" THEN <<"secret", "vault">>
    ELSE <<"public", table_name>>

\* The column loop of rewrite_and_validate
RECURSIVE WalkColumns(_, _, _, _)
WalkColumns(policy, cols, parsed, blocked_columns) ==
    IF cols = <<>> THEN blocked_columns
    ELSE LET col_node == Head(cols)
             table_name == GetTableForColumn(col_node, parsed)
             schema == SplitTableName(table_name)[1]
             table == SplitTableName(table_name)[2]
             entry == QualifiedName(schema, table) \o "." \o col_node.name
             allowed_cols == GetAllowedColumns(policy, schema, table)
         IN IF table_name = ""
            THEN WalkColumns(policy, Tail(cols), parsed, blocked_columns)
            ELSE IF col_node.name \in GetDeniedColumns(policy, schema, table)
            THEN WalkColumns(policy, Tail(cols), parsed, Append(blocked_columns, entry))
            ELSE IF allowed_cols # {} /\ col_node.name \notin allowed_cols
            THEN WalkColumns(policy, Tail(cols), parsed, Append(blocked_columns, entry))
            ELSE WalkColumns(policy, Tail(cols), parsed, blocked_columns)

\* SecurityValidationResult
Denied(message, blocked_tables, blocked_columns) ==
    [is_valid |-> FALSE, error_message |-> message,
     blocked_tables |-> blocked_tables, blocked_columns |-> blocked_columns,
     rewritten_sql |-> NoSql]

Allowed(rewritten_sql) ==
    [is_valid |-> TRUE, error_message |-> None, blocked_tables |-> <<>>,
     blocked_columns |-> <<>>, rewritten_sql |-> rewritten_sql]

\* The denial of rewrite_and_validate with the column list left out
DenyBlocked_ColumnsDropped(blocked_tables, blocked_columns) ==
    Denied("Blocked", blocked_tables, <<>>)

\* The denial rewrite_and_validate returns when something is blocked
DenyBlocked(blocked_tables, blocked_columns) ==
    Denied("Blocked", blocked_tables, blocked_columns)

\* SQLAccessControlRewriter.rewrite_and_validate
RewriteAndValidate(policy, s) ==
    IF ~Parses(s) THEN Denied("Access control error", <<>>, <<>>)
    ELSE LET walked == WalkTables(policy, TableNodes(s.tree), s.tree, <<>>)
             blocked_tables == walked.blocked_tables
             blocked_columns ==
                 WalkColumns(policy, ColumnNodes(walked.parsed), walked.parsed, <<>>)
         IN IF blocked_tables # <<>> \/ blocked_columns # <<>>
            THEN DenyBlocked(blocked_tables, blocked_columns)
            ELSE Allowed(Generate(walked.parsed))


\* ------------------------------------------------------ SQL inputs (corpus)
T_users == Tbl("", "users", "")
T_users_u == Tbl("", "users", "u")
T_orders == Tbl("", "orders", "")
T_vault == Tbl("secret", "vault", "")

C_id == Col("", "id")
C_hash == Col("", "password_hash")
C_u_hash == Col("u", "password_hash")
C_users_hash == Col("users", "password_hash")
\* users.* is an exp.Column whose name is "*"
C_users_star == Col("users", "*")

\* Root statements: SELECT <cols> FROM <tables> [WHERE active], and the
\* statements the validator is there to stop.
RootSelects ==
    {Stmt("Select", "root", t, c, w, <<>>) :
        t \in {<<T_users>>, <<T_users_u>>, <<T_orders>>, <<T_vault>>, <<T_orders, T_users>>},
        c \in {<<C_id>>, <<C_hash>>, <<C_u_hash>>},
        w \in {<<>>, <<"active">>}}

RootOthers ==
    {Stmt("Select", "root", <<T_users>>, <<C_users_hash>>, <<>>, <<>>),
     Stmt("Select", "root", <<T_users>>, <<C_id>>, <<>>,
          <<Fn("Anonymous", "PG_READ_FILE", "")>>),
     Stmt("Select", "root", <<T_users>>, <<C_id>>, <<>>, <<Fn("Count", "", "COUNT")>>),
     Stmt("Delete", "root", <<T_users>>, <<C_id>>, <<"active">>, <<>>),
     Stmt("Select", "root", <<T_users>>, <<C_users_star>>, <<>>, <<>>),
     SelectStar(<<T_users>>)}

Roots == RootSelects \cup RootOthers

\* Statements nested below another one
Nested ==
    {Stmt("Select", "Subquery", <<T_users>>, <<C_hash>>, <<>>, <<>>),
     Stmt("Select", "Subquery", <<T_orders>>, <<C_id>>, <<"active">>, <<>>),
     Stmt("Select", "Subquery", <<T_vault>>, <<C_id>>, <<>>,
          <<Fn("Anonymous", "Set_Config", "")>>),
     Stmt("Delete", "Subquery", <<T_users>>, <<>>, <<>>, <<>>),
     Stmt("Select", "CTE", <<T_orders>>, <<C_id>>, <<>>, <<>>),
     Stmt("Delete", "CTE", <<T_users>>, <<C_id>>, <<>>, <<>>)}

\* The chains of at most d statements nested one inside the other
RECURSIVE Chains(_)
Chains(d) ==
    IF d = 0 THEN {<<>>}
    ELSE Chains(d - 1) \cup
         {<<n>> \o c : n \in Nested, c \in {x \in Chains(d - 1) : Len(x) = d - 1}}

Trees == {<<r>> \o c : r \in Roots, c \in Chains(MaxDepth)}

SqlInputs == {RawSql(t) : t \in Trees} \cup {Garbage, Unterminated, NoSql}

\* ----------------------------------------------------------- policies
UserIdFilter == Filter("user_id = current_user_id()", <<Col("", "user_id")>>)

Policies ==
    {Policy("p1",
            <<Rule("public", "users", {}, {"password_hash"}, NoFilter),
              Rule("public", "orders", {}, {}, UserIdFilter)>>,
            {"secret.vault"}, FALSE, FALSE, 0),
     Policy("p2",
            <<Rule("public", "users", {"id", "tenant"}, {}, Filter("tenant = 1", <<Col("", "tenant")>>)),
              Rule("secret", "vault", {}, {"id"}, NoFilter)>>,
            {"public.orders"}, FALSE, FALSE, 0),
     Policy("p3",
            <<Rule("public", "orders", {}, {}, BadFilter("user_id ="))>>,
            {"users"}, FALSE, FALSE, 0),
     DefaultNoAccess(
         Policy("p4",
                <<NoAccess(Rule("public", "users", {}, {}, NoFilter)),
                  Rule("public", "orders", {}, {}, NoFilter)>>,
                {}, FALSE, FALSE, 0))}

\* ----------------------------------------------------------- rate limiter
\* self.records[key] of the defaultdict
RecordOf(recs, key) == IF key \in DOMAIN recs THEN recs[key] ELSE <<>>

\* check_rate_limit never dropping a timestamp from the record
Prune_KeepAll(timestamps, current_time) == timestamps

\* [ts for ts in record.timestamps if ts > cutoff_time]
Prune(timestamps, current_time) ==
    SelectSeq(timestamps, LAMBDA ts : ts > current_time - rl_config.time_window)

\* len(record.timestamps) >= self.config.max_requests
LimitReached(kept) == Len(kept) >= rl_config.max_requests

\* check_rate_limit forgetting the admissions it grants
CheckRateLimit_Unrecorded(recs, key, current_time) ==
    [allowed |-> ~rl_config.enabled
                    \/ ~LimitReached(Prune(RecordOf(recs, key), current_time)),
     records |-> recs]

\* check_rate_limit recording the probes it denies too
CheckRateLimit_DenialsRecorded(recs, key, current_time) ==
    LET kept == Prune(RecordOf(recs, key), current_time)
    IN IF ~rl_config.enabled THEN [allowed |-> TRUE, records |-> recs]
       ELSE [allowed |-> ~LimitReached(kept),
             records |-> [k \in DOMAIN recs \cup {key} |->
                             IF k = key THEN Append(kept, current_time)
                             ELSE recs[k]]]

\* RateLimiter.check_rate_limit: the verdict and the records it leaves
CheckRateLimit(recs, key, current_time) ==
    LET kept == Prune(RecordOf(recs, key), current_time)
        allowed == ~LimitReached(kept)
        left == IF allowed THEN Append(kept, current_time) ELSE kept
    IN IF ~rl_config.enabled THEN [allowed |-> TRUE, records |-> recs]
       ELSE [allowed |-> allowed,
             records |-> [k \in DOMAIN recs \cup {key} |->
                             IF k = key THEN left ELSE recs[k]]]

\* get_current_usage reporting the whole limit as remaining
GetCurrentUsage_FullRemaining(recs, key, current_time) ==
    [current_requests |-> Len(Prune(RecordOf(recs, key), current_time)),
     remaining_requests |-> rl_config.max_requests]

\* RateLimiter.get_current_usage
GetCurrentUsage(recs, key, current_time) ==
    IF key \notin DOMAIN recs
    THEN [current_requests |-> 0, remaining_requests |-> rl_config.max_requests]
    ELSE LET valid_requests == Len(Prune(recs[key], current_time))
         IN [current_requests |-> valid_requests,
             remaining_requests |->
                 IF rl_config.max_requests - valid_requests > 0
                 THEN rl_config.max_requests - valid_requests ELSE 0]

\* `if key:` of reset: neither None nor the empty string
Truthy(key) == key # None /\ key # ""

\* RateLimiter.reset: the records it leaves (del of the key's record, or
\* clear)
Reset(recs, key) ==
    IF Truthy(key) THEN [k \in DOMAIN recs \ {key} |-> recs[k]]
    ELSE [k \in {} |-> <<>>]

\* RateLimitConfig
RateLimitConfig(enabled, max_requests, time_window) ==
    [enabled |-> enabled, max_requests |-> max_requests, time_window |-> time_window]

\* The tasks that call the limiter, none of them inside a call
Tasks == 1..MaxTasks
IdleTask == [pc |-> "idle", key |-> None, fresh |-> FALSE]
IdleTasks ==
    /\ task = [t \in Tasks |-> IdleTask]
    /\ lock = 0 /\ probes = <<>> /\ usage = <<>>

\* The components called on their own, before any call
IdleKeys == called = <<>>
IdleRetry == retry = <<>>
IdleRegistry == registry = <<>>
IdleCache == cache = <<>>
IdleRows == fetched = <<>>
IdleTools == collector = <<>> /\ server = <<>>
IdleParts == IdleKeys /\ IdleRetry /\ IdleRegistry /\ IdleCache /\ IdleRows

\* ------------------------------------------------------------- SpecSQL
\* The pure SQL functions applied to every input of the corpus.
IdleRequest ==
    /\ pc = "idle" /\ nreq = 0 /\ req_database = None /\ db_name = None
    /\ sql = NoSql /\ formatted_sql = NoSql
    /\ results = 0 /\ oracle_reply = "" /\ response = <<>> /\ raised = <<>>
    /\ draft_attempt = 0 /\ exec_attempt = 0
    /\ stages = <<>> /\ exec_log = <<>>

SQLInit ==
    /\ in_sql \in SqlInputs
    /\ in_policy \in Policies
    /\ validation = <<>> /\ formatted = <<>> /\ security = <<>>
    /\ load_on_startup = TRUE /\ default_database = None
    /\ explain_cfg = [require_explain |-> FALSE, has_max_cost |-> FALSE, max_explain_cost |-> 0]
    /\ IdleRequest
    /\ rl_config = RateLimitConfig(TRUE, MaxRequestsPerWindow, TimeWindow)
    /\ records = [k \in {} |-> <<>>] /\ now = 0
    /\ IdleTasks /\ IdleTools /\ IdleParts

Uncalled == validation = <<>> /\ formatted = <<>> /\ security = <<>>

CallValidateSql ==
    /\ Uncalled
    /\ validation' = <<ValidateSql(in_sql)>>
    /\ UNCHANGED <<in_sql, in_policy, formatted, security, cfgvars, partvars, toolvars, taskvars, reqvars, rlvars>>

CallFormatSql ==
    /\ Uncalled
    /\ formatted' = <<FormatSql(in_sql)>>
    /\ UNCHANGED <<in_sql, in_policy, validation, security, cfgvars, partvars, toolvars, taskvars, reqvars, rlvars>>

CallRewriteAndValidate ==
    /\ Uncalled
    /\ security' = <<RewriteAndValidate(in_policy, in_sql)>>
    /\ UNCHANGED <<in_sql, in_policy, validation, formatted, cfgvars, partvars, toolvars, taskvars, reqvars, rlvars>>

SQLNext == CallValidateSql \/ CallFormatSql \/ CallRewriteAndValidate

SpecSQL == SQLInit /\ [][SQLNext]_vars


\* ------------------------------------------------ what the claims speak of
\* The schema a table reference names: its qualifier, public when it has none
DeclaredSchema(t) == IF t.db # "" THEN t.db ELSE "public"

\* The table a column reference of statement i belongs to: the table its
\* qualifier names (an alias denotes the aliased table), else the first table
\* of the nearest FROM; <<>> when nothing in scope answers.
OwningTable(tree, i, c) ==
    LET names(t) == IF t.alias # "" THEN t.alias ELSE t.name
        answers(j) == IF c.table = "" THEN tree[j].tables
                      ELSE SelectSeq(tree[j].tables, LAMBDA t : names(t) = c.table)
        scopes == {j \in 1..i : answers(j) # <<>>}
    IN IF scopes = {} THEN <<>>
       ELSE <<answers(CHOOSE j \in scopes : \A k \in scopes : k <= j)[1]>>

\* The innermost SELECT holding the tables of statement k (0: none)
InnermostSelect(tree, k) ==
    LET holding == {i \in 1..k : tree[i].kind = "Select"}
    IN IF holding = {} THEN 0 ELSE CHOOSE i \in holding : \A j \in holding : j <= i

\* C3: whenever validate_sql accepts a statement, the statement is read-only:
\* its root and every statement nested in it at any depth (subquery or WITH
\* clause) is a SELECT, and no function of the dangerous set is called
\* anywhere in it, whatever the case it is written in.
C3_AcceptedIsReadOnly ==
    (validation # <<>> /\ validation[1].is_valid) =>
        /\ \A i \in DOMAIN in_sql.tree : in_sql.tree[i].kind = "Select"
        /\ \A i \in DOMAIN in_sql.tree : \A f \in Range(in_sql.tree[i].funcs) :
               FuncName(f) \notin dangerous_function_names

\* C4: a query referencing a table whose schema-qualified name (a missing
\* schema being public) or bare name is in blocked_tables is rejected, and
\* the table is listed in the result's blocked_tables.
C4_BlockedTableRejected ==
    (security # <<>> /\ Parses(in_sql)) =>
        \A n \in Range(TableNodes(in_sql.tree)) :
            LET t == TableAt(in_sql.tree, n)
                q == QualifiedName(DeclaredSchema(t), t.name)
            IN (q \in in_policy.blocked_tables \/ t.name \in in_policy.blocked_tables) =>
                   /\ ~security[1].is_valid
                   /\ q \in Range(security[1].blocked_tables)

\* C5: a column reference whose column is in denied_columns of its owning
\* table makes the rewriter reject the query and list the column in
\* blocked_columns.
C5_DeniedColumnRejected ==
    (security # <<>> /\ Parses(in_sql)) =>
        \A i \in DOMAIN in_sql.tree : \A c \in Range(in_sql.tree[i].cols) :
            LET own == OwningTable(in_sql.tree, i, c)
            IN (own # <<>> /\ c.name \in
                    GetDeniedColumns(in_policy, DeclaredSchema(own[1]), own[1].name)) =>
                   /\ ~security[1].is_valid
                   /\ (QualifiedName(DeclaredSchema(own[1]), own[1].name) \o "." \o c.name)
                          \in Range(security[1].blocked_columns)

\* C6: in an accepted query, every table reference whose rule carries a row
\* filter (one that parses) has the filter among the conjuncts of the WHERE
\* clause of the innermost SELECT holding the reference.
C6_RowFilterInInnermostSelect ==
    (security # <<>> /\ security[1].is_valid) =>
        \A n \in Range(TableNodes(in_sql.tree)) :
            LET t == TableAt(in_sql.tree, n)
                f == GetRowFilter(in_policy, DeclaredSchema(t), t.name)
                k == InnermostSelect(in_sql.tree, n[1])
            IN (f.text # "" /\ f.parses /\ k # 0) =>
                   f.text \in Range(security[1].rewritten_sql.tree[k].where)

\* C8 as stated: for every policy and every input, parsing or not, the
\* rewriter answers ok=false exactly when blocked_tables and blocked_columns
\* together are non-empty.
C8_DeniedIffBlockedListed ==
    security # <<>> =>
        (~security[1].is_valid <=>
             (security[1].blocked_tables # <<>> \/ security[1].blocked_columns # <<>>))

\* C8 amended: for an input that parses, ok=false exactly when the two lists
\* together are non-empty; for an input that does not parse, ok=false with
\* both lists empty.
C8_DeniedIffBlockedListedWhenParsed ==
    security # <<>> =>
        IF Parses(in_sql)
        THEN ~security[1].is_valid <=>
                 (security[1].blocked_tables # <<>> \/ security[1].blocked_columns # <<>>)
        ELSE /\ ~security[1].is_valid
             /\ security[1].blocked_tables = <<>>
             /\ security[1].blocked_columns = <<>>

\* A query that parses is denied for a column alone
C8_Witness ==
    /\ security # <<>> /\ Parses(in_sql) /\ ~security[1].is_valid
    /\ security[1].blocked_tables = <<>> /\ security[1].blocked_columns # <<>>


\* =================================================================== Spec
\* The query tool: query() of multi_database_server.py around
\* QueryProcessor.process_query and DatabaseExecutor.execute_query.

\* ------------------------------------------------------------ settings
\* settings.databases, in configuration order
DatabaseNames == <<"main", "guarded">>

\* query_processors: one per configured database (ensure_initialized)
QueryProcessors == Range(DatabaseNames)

\* The access policy of database "guarded"; "main" has none.
GuardedPolicy ==
    Policy("guarded",
           <<Rule("public", "users", {}, {"password_hash"}, NoFilter),
             Rule("public", "orders", {}, {}, UserIdFilter)>>,
           {"secret.vault"},
           explain_cfg.require_explain, explain_cfg.has_max_cost,
           explain_cfg.max_explain_cost)

\* db_config.access_policy: <<>> is None
AccessPolicy(db) == IF db = "guarded" THEN <<GuardedPolicy>> ELSE <<>>

\* require_explain and max_explain_cost of a policy (has_max_cost is FALSE
\* when max_explain_cost is None)
Explain(require_explain, has_max_cost, max_explain_cost) ==
    [require_explain |-> require_explain, has_max_cost |-> has_max_cost,
     max_explain_cost |-> max_explain_cost]

\* The settings files the server is started with
Settings ==
    {[load_on_startup |-> FALSE, default_database |-> None,
      explain_cfg |-> Explain(FALSE, FALSE, 0)],
     [load_on_startup |-> TRUE, default_database |-> "guarded",
      explain_cfg |-> Explain(TRUE, FALSE, 0)],
     [load_on_startup |-> TRUE, default_database |-> "ghost",
      explain_cfg |-> Explain(TRUE, TRUE, 0)],
     [load_on_startup |-> TRUE, default_database |-> None,
      explain_cfg |-> Explain(TRUE, TRUE, 1)],
     [load_on_startup |-> TRUE, default_database |-> "",
      explain_cfg |-> Explain(FALSE, FALSE, 0)]}

\* SchemaCache._schema is set by load_schema, which only ensure_initialized
\* calls, and only when load_on_startup is set
SchemaLoaded == load_on_startup

\* What the chat model may draft
Drafts ==
    {RawSql(<<Stmt("Select", "root", <<T_users>>, <<C_id>>, <<>>, <<>>)>>),
     RawSql(<<Stmt("Select", "root", <<T_users>>, <<C_hash>>, <<>>, <<>>)>>),
     RawSql(<<Stmt("Select", "root", <<T_orders>>, <<C_id>>, <<"active">>, <<>>)>>),
     RawSql(<<Stmt("Delete", "root", <<T_users>>, <<>>, <<>>, <<>>)>>),
     Garbage, Unterminated}

\* SQL text that is empty
EmptySql == [kind |-> "empty", tree |-> <<>>, pretty |-> FALSE]

\* response.choices[0].message.content: None, or text that may be wrapped in
\* a markdown fence around its body
NullContent == [fenced |-> FALSE, body |-> NoSql]
Content(fenced, body) == [fenced |-> fenced, body |-> body]
ModelContents ==
    {NullContent} \cup {Content(f, b) : f \in BOOLEAN, b \in Drafts \cup {EmptySql}}

\* SQLGenerator._clean_sql: the fence and the blanks around the body go
CleanSql(content) == content.body

\* One run of the body of SQLGenerator.generate_sql: api is "ok" or the
\* exception chat.completions.create raised
GenerateSql(api, content) ==
    IF api # "ok" THEN [outcome |-> api, sql |-> NoSql]
    ELSE IF content = NullContent THEN [outcome |-> "ValueError", sql |-> NoSql]
    ELSE [outcome |-> "ok", sql |-> CleanSql(content)]

\* ------------------------------------------------------------- results
QueryResponse(s, rows, database) ==
    [kind |-> "QueryResponse", error |-> None, sql |-> s, rows |-> rows,
     database |-> database]

QueryError(error, s) ==
    [kind |-> "QueryError", error |-> error, sql |-> s, rows |-> 0,
     database |-> None]

\* The dict query() builds itself
ToolError(error) ==
    [kind |-> "dict", error |-> error, sql |-> NoSql, rows |-> 0, database |-> None]

\* ------------------------------------------------------- resolve database
\* get_default_database with the configured default ignored
GetDefaultDatabase_FirstRegistered ==
    IF DatabaseNames # <<>> THEN DatabaseNames[1] ELSE ""

\* MultiDatabaseSettings.get_default_database ("" when it returns None);
\* `if self.server.default_database:` takes "" for no default
GetDefaultDatabase ==
    IF Truthy(default_database)
    THEN IF default_database \in Range(DatabaseNames) THEN default_database ELSE ""
    ELSE IF DatabaseNames # <<>> THEN DatabaseNames[1] ELSE ""

\* get_database_name: the name, or "" when it raises ValueError;
\* `if requested_db:` takes "" for no name
GetDatabaseName(requested_db) ==
    IF Truthy(requested_db)
    THEN IF requested_db \notin QueryProcessors THEN "" ELSE requested_db
    ELSE GetDefaultDatabase

\* ----------------------------------------------------------- retry wrappers
GenerateSqlMaxAttempts == 3
ExecuteQueryMaxAttempts == 2

ApiRetryable == {"APITimeoutError", "APIConnectionError", "RateLimitError"}
DbRetryable == {"PostgresConnectionError", "InterfaceError"}

\* retry_on_api_error's wrapper, after attempt number `attempt` (from 0)
\* ended with `outcome` ("ok" or the exception raised)
RetryOnApiError(max_attempts, attempt, outcome) ==
    IF outcome = "ok" THEN "return"
    ELSE IF outcome \in ApiRetryable /\ attempt # max_attempts - 1 THEN "retry"
    ELSE "raise"

\* retry_on_db_error retrying whatever the wrapped function raises
RetryOnDbError_RetriesAll(max_attempts, attempt, outcome) ==
    IF outcome = "ok" THEN "return"
    ELSE IF attempt # max_attempts - 1 THEN "retry"
    ELSE "raise"

\* retry_on_db_error's wrapper
RetryOnDbError(max_attempts, attempt, outcome) ==
    IF outcome = "ok" THEN "return"
    ELSE IF outcome \in DbRetryable /\ attempt # max_attempts - 1 THEN "retry"
    ELSE "raise"

TimeoutRetryable == {"TimeoutError", "QueryCanceledError"}

\* retry_on_timeout sleeping after the last failed attempt as well
RetryOnTimeout_SleepsAfterLast(max_attempts, attempt, outcome) ==
    IF outcome = "ok" THEN "return"
    ELSE IF outcome \in TimeoutRetryable THEN "retry"
    ELSE "raise"

\* retry_on_timeout's wrapper
RetryOnTimeout(max_attempts, attempt, outcome) ==
    IF outcome = "ok" THEN "return"
    ELSE IF outcome \in TimeoutRetryable /\ attempt # max_attempts - 1 THEN "retry"
    ELSE "raise"

\* The three decorators of utils/retry.py: what each retries, its first
\* delay and the factor the delay grows by (retry_on_db_error keeps it)
Wrappers == {"timeout", "api", "db"}
Retryable(wrapper) ==
    CASE wrapper = "timeout" -> TimeoutRetryable
      [] wrapper = "api" -> ApiRetryable
      [] wrapper = "db" -> DbRetryable
FirstDelay(wrapper) == IF wrapper = "api" THEN 2 ELSE 1
Backoff(wrapper) == IF wrapper = "db" THEN 1 ELSE 2

\* The except clause of a wrapper after attempt number `attempt` (from 0)
WrapperDecision(wrapper, max_attempts, attempt, outcome) ==
    CASE wrapper = "timeout" -> RetryOnTimeout(max_attempts, attempt, outcome)
      [] wrapper = "api" -> RetryOnApiError(max_attempts, attempt, outcome)
      [] wrapper = "db" -> RetryOnDbError(max_attempts, attempt, outcome)

\* ---------------------------------------------------------------- executor
max_rows == 10000

\* final_sql of execute_query with the rewriter's result ignored
FinalSql_Unrewritten(s, validation_result) == s

\* final_sql of execute_query: the rewritten SQL when there is one
\* (`if validation_result.rewritten_sql:`, neither None nor empty text)
FinalSql(s, validation_result) ==
    IF validation_result.rewritten_sql.kind \notin {"none", "empty"}
    THEN validation_result.rewritten_sql ELSE s

\* DatabaseExecutor._check_explain_cost on the first plan line: plan is
\* "cost" when it holds cost=<start>..<total>, "nocost" when it holds no
\* cost, "error" when EXPLAIN or the parse of its answer raises
CheckExplainCost(policy, plan, total_cost) ==
    IF /\ plan = "cost"
       /\ (policy.has_max_cost /\ policy.max_explain_cost # 0)
       /\ total_cost > policy.max_explain_cost
    THEN "PermissionError" ELSE "ok"

\* rows[:max_rows]
Truncate(rows, limit) == IF rows > limit THEN limit ELSE rows

\* The truncation of execute_query keeping the last rows instead
TruncateRows_KeepsLast(rows, limit) ==
    IF Len(rows) > limit THEN SubSeq(rows, Len(rows) - limit + 1, Len(rows)) ELSE rows

\* if len(rows) > max_rows: rows = rows[:max_rows], on the rows themselves
\* (max_rows >= 0)
TruncateRows(rows, limit) ==
    IF Len(rows) > limit THEN SubSeq(rows, 1, limit) ELSE rows

\* What the server may answer to EXPLAIN <final_sql>
ExplainAnswers ==
    [plan : {"cost"}, total_cost : 0..MaxPlanCost]
        \cup [plan : {"nocost", "error"}, total_cost : {0}]

\* What the server may answer to conn.fetch(final_sql); "TimeoutError" is
\* the pool's command_timeout running out
FetchAnswers ==
    [fetch : {"ok"}, rows : 0..MaxRowsFetched]
        \cup [fetch : {"PostgresError", "PostgresConnectionError", "TimeoutError"},
              rows : {0}]

\* One run of the body of DatabaseExecutor.execute_query (the pool is
\* initialized): what it ran on the connection and how it ended.
ExecuteQuery(access_policy, s, acquire, plan, total_cost, fetch, rows) ==
    LET validation_result ==
            IF access_policy = <<>> THEN Allowed(NoSql)
            ELSE RewriteAndValidate(access_policy[1], s)
        final == FinalSql(s, validation_result)
        explain == access_policy # <<>> /\ access_policy[1].require_explain
        gate == IF explain THEN CheckExplainCost(access_policy[1], plan, total_cost)
                ELSE "ok"
        base == [final_sql |-> final, explained |-> FALSE, plan |-> "none",
                 total_cost |-> 0, fetched |-> FALSE, outcome |-> "ok", rows |-> 0]
        seen == [base EXCEPT !.explained = explain,
                             !.plan = IF explain THEN plan ELSE "none",
                             !.total_cost = IF explain /\ plan = "cost" THEN total_cost ELSE 0]
    IN IF ~validation_result.is_valid
       THEN [base EXCEPT !.final_sql = s, !.outcome = "PermissionError"]
       ELSE IF acquire # "ok" THEN [base EXCEPT !.outcome = acquire]
       ELSE IF gate # "ok" THEN [seen EXCEPT !.outcome = gate]
       ELSE [seen EXCEPT !.fetched = TRUE, !.outcome = fetch,
                         !.rows = IF fetch = "ok" THEN Truncate(rows, max_rows) ELSE 0]


\* ---------------------------------------------------------- process_query
\* The stages of one request, in pipeline order
StageOrder ==
    <<"resolve-db", "admit", "schema-present", "draft", "validate",
      "pretty-print", "execute", "sanity", "respond">>

\* query() calling process_query whatever the limiter answered
AfterAdmit_Unchecked(is_allowed, has_processor) ==
    IF has_processor THEN "schema" ELSE "done"

\* query() after check_rate_limit and the processor lookup: on to
\* process_query, or return the error dict
AfterAdmit(is_allowed, has_processor) ==
    IF ~is_allowed THEN "done" ELSE IF has_processor THEN "schema" ELSE "done"

\* Where a rejected draft sends the pipeline when it drafts again
AfterValidate_Redraft(is_valid) == IF is_valid THEN "format" ELSE "draft"

\* process_query after validate_sql: on to format_sql, or return the fault
AfterValidate(is_valid) == IF is_valid THEN "format" ELSE "done"

\* The fault of a rejected draft echoing the formatted SQL
ValidationFailed_EchoFormatted(s) == QueryError("validation_failed", FormatSql(s))

\* The fault process_query returns for a draft validate_sql rejects
ValidationFailed(s) == QueryError("validation_failed", s)

\* process_query without its outer try: the exception reaches query(),
\* whose own handler answers with a dict
ProcessQueryError_Escapes(stage, fsql) ==
    CASE stage = "draft" -> QueryError("ai_generation_failed", NoSql)
      [] stage = "execute" -> QueryError("execution_failed", fsql)
      [] OTHER -> ToolError("internal_error")

\* What process_query returns when a collaborator raises in `stage`:
\* the handler of the stage's own try, else the outer except Exception
ProcessQueryError(stage, fsql) ==
    CASE stage = "draft" -> QueryError("ai_generation_failed", NoSql)
      [] stage = "execute" -> QueryError("execution_failed", fsql)
      [] OTHER -> QueryError("internal_error", NoSql)

\* What the chat model does when validate_results asks it: a reply that
\* starts with "valid" or with "invalid" once stripped and lowered, another
\* reply, an empty reply, content None, or an exception (a timeout included)
OracleReplies == {"valid", "invalid", "other", "empty", "none", "exception"}

\* validate_results failing the rows whenever the model gives no verdict
ValidateResults_StrictOracle(rows, reply) == IF rows = 0 THEN TRUE ELSE reply = "valid"

\* ResultValidator.validate_results: is_valid for the model's reply; with no
\* rows the model is not asked
ValidateResults(rows, reply) == IF rows = 0 THEN TRUE ELSE reply # "invalid"

Enter(stage) == stages' = Append(stages, stage)

\* query() is called
Request ==
    /\ pc \in {"idle", "done"}
    /\ nreq < MaxRequests
    /\ nreq' = nreq + 1
    /\ req_database' \in {None, "", "guarded", "ghost"}
    /\ pc' = "resolve"
    /\ db_name' = None /\ sql' = NoSql /\ formatted_sql' = NoSql /\ results' = 0
    /\ oracle_reply' = ""
    /\ response' = <<>> /\ raised' = <<>> /\ draft_attempt' = 0 /\ exec_attempt' = 0
    /\ stages' = <<>> /\ exec_log' = <<>>
    /\ UNCHANGED <<sqlvars, cfgvars, partvars, toolvars, taskvars, rlvars>>

\* query(): get_database_name
ResolveDb ==
    /\ pc = "resolve"
    /\ Enter("resolve-db")
    /\ LET name == GetDatabaseName(req_database)
       IN IF name = ""
          THEN /\ response' = <<ToolError("invalid_database")>>
               /\ pc' = "done"
               /\ UNCHANGED db_name
          ELSE /\ db_name' = name
               /\ pc' = "admit"
               /\ UNCHANGED response
    /\ UNCHANGED <<sqlvars, cfgvars, partvars, toolvars, taskvars, rlvars, nreq, oracle_reply, req_database, sql, formatted_sql,
                   results, raised, draft_attempt, exec_attempt, exec_log>>

\* query(): rate_limiter.check_rate_limit at the clock's reading (which never
\* runs backwards), then the processor lookup
Admit ==
    /\ pc = "admit"
    /\ Enter("admit")
    /\ \E current_time \in now..MaxTime :
       LET verdict == CheckRateLimit(records, db_name, current_time)
       IN /\ now' = current_time
          /\ records' = verdict.records
          /\ pc' = AfterAdmit(verdict.allowed, db_name \in QueryProcessors)
          /\ IF ~verdict.allowed
             THEN response' = <<ToolError("rate_limit_exceeded")>>
             ELSE IF db_name \notin QueryProcessors
             THEN response' = <<ToolError("internal_error")>>
             ELSE UNCHANGED response
    /\ UNCHANGED <<sqlvars, cfgvars, partvars, toolvars, taskvars, nreq, oracle_reply, req_database, db_name, sql,
                   formatted_sql, results, raised, draft_attempt, exec_attempt,
                   exec_log>>

\* process_query step 1: the schema must be loaded
SchemaPresent ==
    /\ pc = "schema"
    /\ Enter("schema-present")
    /\ IF SchemaLoaded
       THEN UNCHANGED response /\ pc' = "draft"
       ELSE response' = <<QueryError("schema_not_loaded", NoSql)>> /\ pc' = "done"
    /\ UNCHANGED <<sqlvars, cfgvars, partvars, toolvars, taskvars, rlvars, nreq, oracle_reply, req_database, db_name, sql,
                   formatted_sql, results, raised, draft_attempt, exec_attempt,
                   exec_log>>

\* process_query step 2: one attempt of generate_sql under retry_on_api_error
Draft ==
    /\ pc = "draft"
    /\ stages' = IF draft_attempt = 0 THEN Append(stages, "draft") ELSE stages
    /\ \E api \in {"ok", "APITimeoutError", "AuthenticationError"},
          content \in ModelContents :
          LET run == GenerateSql(api, content)
              outcome == run.outcome
              decision == RetryOnApiError(GenerateSqlMaxAttempts, draft_attempt, outcome)
          IN CASE decision = "return" ->
                    /\ sql' = run.sql /\ pc' = "validate"
                    /\ UNCHANGED <<response, raised, draft_attempt>>
               [] decision = "retry" ->
                    /\ draft_attempt' = draft_attempt + 1
                    /\ UNCHANGED <<sql, pc, response, raised>>
               [] decision = "raise" ->
                    /\ raised' = <<[stage |-> "draft", exc |-> outcome]>>
                    /\ response' = <<ProcessQueryError("draft", formatted_sql)>>
                    /\ pc' = "done"
                    /\ UNCHANGED <<sql, draft_attempt>>
    /\ UNCHANGED <<sqlvars, cfgvars, partvars, toolvars, taskvars, rlvars, nreq, oracle_reply, req_database, db_name,
                   formatted_sql, results, exec_attempt, exec_log>>

\* process_query step 3: validate_sql
Validate ==
    /\ pc = "validate"
    /\ Enter("validate")
    /\ LET checked == ValidateSql(sql)
       IN /\ pc' = AfterValidate(checked.is_valid)
          /\ response' = IF checked.is_valid THEN response ELSE <<ValidationFailed(sql)>>
    /\ UNCHANGED <<sqlvars, cfgvars, partvars, toolvars, taskvars, rlvars, nreq, oracle_reply, req_database, db_name, sql,
                   formatted_sql, results, raised, draft_attempt, exec_attempt,
                   exec_log>>

\* process_query: format_sql
Format ==
    /\ pc = "format"
    /\ Enter("pretty-print")
    /\ formatted_sql' = FormatSql(sql)
    /\ pc' = "execute"
    /\ UNCHANGED <<sqlvars, cfgvars, partvars, toolvars, taskvars, rlvars, nreq, oracle_reply, req_database, db_name, sql,
                   results, response, raised, draft_attempt, exec_attempt, exec_log>>

\* process_query step 4: one attempt of execute_query under retry_on_db_error
Execute ==
    /\ pc = "execute"
    /\ stages' = IF exec_attempt = 0 THEN Append(stages, "execute") ELSE stages
    /\ \E acquire \in {"ok", "PostgresConnectionError"},
          explain \in ExplainAnswers, answer \in FetchAnswers :
          LET run == ExecuteQuery(AccessPolicy(db_name), formatted_sql, acquire,
                                  explain.plan, explain.total_cost,
                                  answer.fetch, answer.rows)
              decision == RetryOnDbError(ExecuteQueryMaxAttempts, exec_attempt, run.outcome)
          IN /\ exec_log' = Append(exec_log, run)
             /\ CASE decision = "return" ->
                       /\ results' = run.rows /\ pc' = "sanity"
                       /\ UNCHANGED <<response, raised, exec_attempt>>
                  [] decision = "retry" ->
                       /\ exec_attempt' = exec_attempt + 1
                       /\ UNCHANGED <<results, pc, response, raised>>
                  [] decision = "raise" ->
                       /\ raised' = <<[stage |-> "execute", exc |-> run.outcome]>>
                       /\ response' = <<ProcessQueryError("execute", formatted_sql)>>
                       /\ pc' = "done"
                       /\ UNCHANGED <<results, exec_attempt>>
    /\ UNCHANGED <<sqlvars, cfgvars, partvars, toolvars, taskvars, rlvars, nreq, oracle_reply, req_database, db_name, sql,
                   formatted_sql, draft_attempt>>

\* process_query step 5: validate_results; "crash" is an exception raised
\* while the prompt is built, outside validate_results' own try
Sanity ==
    /\ pc = "sanity"
    /\ Enter("sanity")
    /\ \E reply \in OracleReplies \cup {"crash"} :
          /\ oracle_reply' = IF results > 0 /\ reply # "crash" THEN reply ELSE ""
          /\ IF reply = "crash" /\ results > 0
             THEN /\ raised' = <<[stage |-> "sanity", exc |-> "Exception"]>>
                  /\ response' = <<ProcessQueryError("sanity", formatted_sql)>>
                  /\ pc' = "done"
             ELSE IF ~ValidateResults(results, reply)
             THEN /\ response' = <<QueryError("result_validation_failed", formatted_sql)>>
                  /\ pc' = "done"
                  /\ UNCHANGED raised
             ELSE /\ pc' = "respond"
                  /\ UNCHANGED <<response, raised>>
    /\ UNCHANGED <<sqlvars, cfgvars, partvars, toolvars, taskvars, rlvars, nreq, req_database, db_name, sql,
                   formatted_sql, results, draft_attempt, exec_attempt, exec_log>>

\* process_query step 6: the successful response, unless building it raises
Respond ==
    /\ pc = "respond"
    /\ Enter("respond")
    /\ \E built \in BOOLEAN :
          IF built
          THEN /\ response' = <<QueryResponse(formatted_sql, results, db_name)>>
               /\ UNCHANGED raised
          ELSE /\ raised' = <<[stage |-> "respond", exc |-> "Exception"]>>
               /\ response' = <<ProcessQueryError("respond", formatted_sql)>>
    /\ pc' = "done"
    /\ oracle_reply' = ""
    /\ UNCHANGED <<sqlvars, cfgvars, partvars, toolvars, taskvars, rlvars, nreq, req_database, db_name, sql,
                   formatted_sql, results, draft_attempt, exec_attempt, exec_log>>

Init ==
    /\ in_sql = NoSql /\ in_policy = Policy("", <<>>, {}, FALSE, FALSE, 0)
    /\ validation = <<>> /\ formatted = <<>> /\ security = <<>>
    /\ \E settings \in Settings :
          /\ load_on_startup = settings.load_on_startup
          /\ default_database = settings.default_database
          /\ explain_cfg = settings.explain_cfg
    /\ IdleRequest
    /\ rl_config = RateLimitConfig(TRUE, MaxRequestsPerWindow, TimeWindow)
    /\ records = [k \in {} |-> <<>>] /\ now = 0
    /\ IdleTasks /\ IdleTools /\ IdleParts

Next ==
    \/ Request \/ ResolveDb \/ Admit \/ SchemaPresent \/ Draft
    \/ Validate \/ Format \/ Execute \/ Sanity \/ Respond

Spec == Init /\ [][Next]_vars


\* ------------------------------------------------- properties of a request
IsPrefix(s, t) == Len(s) <= Len(t) /\ \A i \in 1..Len(s) : s[i] = t[i]

Last(s) == s[Len(s)]

\* The stage at which each fault kind is returned
StageOfFault(error) ==
    CASE error = "invalid_database" -> {"resolve-db"}
      [] error = "rate_limit_exceeded" -> {"admit"}
      [] error = "schema_not_loaded" -> {"schema-present"}
      [] error = "ai_generation_failed" -> {"draft"}
      [] error = "validation_failed" -> {"validate"}
      [] error = "execution_failed" -> {"execute"}
      [] error = "result_validation_failed" -> {"sanity"}
      [] OTHER -> Range(StageOrder)

\* C1: every statement fetched on a connection as the query, on every
\* attempt, is the pretty-printed form of SQL validate_sql accepted when the
\* database has no access policy, and otherwise the rewritten SQL the
\* rewriter returned with ok=true for the database's policy.
C1_ExecutedSqlIsVetted ==
    \A i \in 1..Len(exec_log) :
        exec_log[i].fetched =>
            IF AccessPolicy(db_name) = <<>>
            THEN /\ ValidateSql(sql).is_valid
                 /\ exec_log[i].final_sql = FormatSql(sql)
            ELSE LET verdict == RewriteAndValidate(AccessPolicy(db_name)[1], FormatSql(sql))
                 IN /\ verdict.is_valid
                    /\ verdict.rewritten_sql.kind # "none"
                    /\ exec_log[i].final_sql = verdict.rewritten_sql

\* The retry after a transient connection error fetched rewritten SQL
C1_Witness ==
    /\ Len(exec_log) = 2
    /\ exec_log[1].fetched /\ exec_log[1].outcome = "PostgresConnectionError"
    /\ exec_log[2].fetched /\ exec_log[2].outcome = "ok"
    /\ AccessPolicy(db_name) # <<>>
    /\ exec_log[2].final_sql # formatted_sql

\* C2: when validate_sql rejects the draft the request ends with a
\* validation_failed fault whose sql is the draft exactly as drafted, and
\* neither execute_query nor validate_results is called for the request.
C2_RejectedDraftEndsRequest ==
    ("validate" \in Range(stages) /\ ~ValidateSql(sql).is_valid) =>
        /\ pc = "done"
        /\ response = <<QueryError("validation_failed", sql)>>
        /\ "execute" \notin Range(stages)
        /\ "sanity" \notin Range(stages)
        /\ exec_log = <<>>

\* A parseable DELETE was drafted and rejected
C2_Witness ==
    /\ pc = "done"
    /\ "validate" \in Range(stages)
    /\ Parses(sql) /\ ~ValidateSql(sql).is_valid
    /\ response # <<>> /\ response[1].sql = sql /\ sql # FormatSql(sql)

\* C7: under require_explain with a max_explain_cost ceiling, an attempt
\* whose plan reports a total cost above the ceiling ends in PermissionError
\* without fetching the query, for every ceiling >= 0, and an attempt whose
\* cost is within the ceiling fetches the query.
C7_CostCeilingEnforced ==
    \A i \in 1..Len(exec_log) :
        LET policy == AccessPolicy(db_name)
            attempt == exec_log[i]
        IN (/\ policy # <<>>
            /\ policy[1].require_explain /\ policy[1].has_max_cost
            /\ attempt.explained /\ attempt.plan = "cost") =>
               IF attempt.total_cost > policy[1].max_explain_cost
               THEN ~attempt.fetched /\ attempt.outcome = "PermissionError"
               ELSE attempt.fetched

\* C9: the stages of a request are entered in pipeline order, each at most
\* once, each only while no fault has been returned, and a fault is returned
\* by the last stage entered.
C9_StagesStrictlyOrdered ==
    /\ IsPrefix(stages, StageOrder)
    /\ pc \notin {"idle", "done"} => response = <<>>
    /\ (pc = "done" /\ response[1].kind # "QueryResponse") =>
           Last(stages) \in StageOfFault(response[1].error)
    /\ (pc = "done" /\ response[1].kind = "QueryResponse") => stages = StageOrder

\* A request went through every stage
C9_Witness ==
    /\ pc = "done"
    /\ stages = StageOrder
    /\ response[1].kind = "QueryResponse"
    /\ draft_attempt > 0 /\ exec_attempt > 0

\* C10: every call of process_query ends with a QueryResponse or a
\* QueryError, whatever a collaborator raised, and an exception raised
\* outside the draft and execute stages' own handlers gives internal_error.
C10_ProcessQueryAlwaysReturns ==
    (pc = "done" /\ "schema-present" \in Range(stages)) =>
        /\ response # <<>>
        /\ response[1].kind \in {"QueryResponse", "QueryError"}
        /\ (raised # <<>> /\ raised[1].stage \notin {"draft", "execute"}) =>
               response[1] = QueryError("internal_error", NoSql)

\* validate_results raised while building its prompt
C10_Witness ==
    /\ pc = "done"
    /\ raised # <<>> /\ raised[1].stage = "sanity"
    /\ response[1].kind = "QueryError" /\ response[1].error = "internal_error"


\* The replies that are failures of the sanity oracle: an exception or a
\* timeout, an empty reply, a reply that gives no verdict
OracleFailures == {"exception", "none", "empty", "other"}

\* C25: a failure of the sanity oracle never turns an executed query into a
\* fault: the request goes on to its QueryResponse, which is what it returns
\* once built; only a reply starting with "invalid" gives the
\* result_validation_failed fault
C25_OracleFailurePasses ==
    [][ /\ (pc = "sanity" /\ oracle_reply' \in OracleFailures) =>
              (pc' = "respond" /\ response' = <<>> /\ raised' = <<>>)
        /\ (pc = "sanity" /\ response' # <<>>
                /\ response'[1].error = "result_validation_failed") =>
              oracle_reply' = "invalid"
        /\ (pc = "respond" /\ oracle_reply \in OracleFailures /\ raised' = <<>>) =>
              response' = <<QueryResponse(formatted_sql, results, db_name)>> ]_vars

\* Rows were returned, the oracle failed and the request is about to answer
C25_Witness ==
    /\ pc = "respond"
    /\ results > 0
    /\ oracle_reply \in OracleFailures
    /\ response = <<>>


\* C11: when execute_query raises PermissionError (the rewriter denied the
\* SQL, or the EXPLAIN cost is over the ceiling) the request ends with an
\* access_denied fault echoing the SQL, not with execution_failed.
C11_ExecutorDenialIsAccessDenied ==
    (pc = "done" /\ raised # <<>> /\ raised[1].stage = "execute"
                 /\ raised[1].exc = "PermissionError") =>
        response = <<QueryError("access_denied", formatted_sql)>>

\* C12: when the statement timeout runs out while the query is fetched, the
\* request ends with a timeout fault.
C12_TimeoutIsQueryTimeout ==
    (pc = "done" /\ raised # <<>> /\ raised[1].exc = "TimeoutError") =>
        (response[1].kind = "QueryError" /\ response[1].error = "timeout")

\* C13: when the chat model's content is None or empty once the fence is
\* stripped, the request ends with an ai_draft_empty fault and neither
\* validate_sql nor execute_query is called.
C13_EmptyDraftIsFault ==
    ("draft" \in Range(stages)
        /\ (sql = EmptySql \/ raised = <<[stage |-> "draft", exc |-> "ValueError"]>>)) =>
        /\ pc = "done"
        /\ response[1].error = "ai_draft_empty"
        /\ "validate" \notin Range(stages)
        /\ "execute" \notin Range(stages)

\* C14: the sql of every QueryResponse is the statement the executor fetched
\* on the connection, row filters included.
C14_ResponseSqlIsExecutedSql ==
    (pc = "done" /\ response[1].kind = "QueryResponse") =>
        /\ Last(exec_log).fetched
        /\ response[1].sql = Last(exec_log).final_sql

\* C15: a request check_rate_limit denies returns the rate_limit_exceeded
\* error in that very step, with no stage after admit: process_query (schema
\* cache, drafting, validator, executor, sanity check) is never called.
C15_DeniedRequestStopsAtAdmit ==
    /\ [][(pc = "admit" /\ ~CheckRateLimit(records, db_name, now').allowed) =>
             /\ pc' = "done"
             /\ response' = <<ToolError("rate_limit_exceeded")>>]_vars
    /\ [](response = <<ToolError("rate_limit_exceeded")>> =>
             /\ pc = "done"
             /\ stages = <<"resolve-db", "admit">>
             /\ sql = NoSql /\ formatted_sql = NoSql
             /\ draft_attempt = 0 /\ exec_log = <<>>)

\* The second request for a database was denied
C15_Witness ==
    /\ pc = "done" /\ nreq = 2
    /\ response = <<ToolError("rate_limit_exceeded")>>
    /\ Len(RecordOf(records, db_name)) = MaxRequestsPerWindow

\* The name C16 resolves a request to: the caller's, else the configured
\* default, else the first registered
ResolutionOrder(requested_db) ==
    IF requested_db \notin {None, ""} THEN requested_db
    ELSE IF default_database \notin {None, ""} THEN default_database
    ELSE DatabaseNames[1]

\* C16: a request runs against the database the caller named, else the
\* configured default, else the first registered one; it is refused at
\* resolve-db exactly when that database is not registered.
C16_DatabaseResolutionOrder ==
    "resolve-db" \in Range(stages) =>
        IF ResolutionOrder(req_database) \in Range(DatabaseNames)
        THEN db_name = ResolutionOrder(req_database)
        ELSE db_name = None /\ response = <<ToolError("invalid_database")>>

\* No database named by the caller: the request ran against the configured
\* default, which is not the first registered database
C16_Witness ==
    /\ req_database = None
    /\ default_database # None
    /\ db_name = default_database /\ db_name # DatabaseNames[1]
    /\ "execute" \in Range(stages)


\* ================================================================= SpecRL
\* The rate limiter called directly by concurrent tasks: check_rate_limit
\* and get_current_usage of utils/rate_limiter.py, under every limit,
\* window and clock reading within the bounds.
Keys == Range(DatabaseNames)

\* Calls made so far: those that returned and those still inside
Calls == Len(probes) + Cardinality({t \in Tasks : task[t].pc # "idle"})

\* What a call of check_rate_limit leaves in the history when it returns;
\* fresh tells that it was issued before any call had returned
Returned(key, time, allowed, fresh) ==
    [key |-> key, time |-> time, allowed |-> allowed, fresh |-> fresh]

RLInit ==
    /\ in_sql = NoSql /\ in_policy = Policy("", <<>>, {}, FALSE, FALSE, 0)
    /\ validation = <<>> /\ formatted = <<>> /\ security = <<>>
    /\ load_on_startup = TRUE /\ default_database = None
    /\ explain_cfg = Explain(FALSE, FALSE, 0)
    /\ IdleRequest
    /\ rl_config \in {RateLimitConfig(TRUE, max_requests, time_window) :
                         max_requests \in 0..MaxLimit, time_window \in 1..MaxWindow}
                     \cup {RateLimitConfig(FALSE, MaxRequestsPerWindow, TimeWindow)}
    /\ records = [k \in {} |-> <<>>] /\ now = 0
    /\ IdleTasks /\ IdleTools /\ IdleParts

\* A task calls check_rate_limit(key); a disabled limiter answers before the
\* lock
RLCall(t) ==
    /\ task[t].pc = "idle"
    /\ Calls < MaxCalls
    /\ \E key \in Keys :
          IF ~rl_config.enabled
          THEN /\ probes' = Append(probes, Returned(key, now, TRUE, probes = <<>>))
               /\ UNCHANGED task
          ELSE /\ task' = [task EXCEPT ![t] = [pc |-> "waiting", key |-> key,
                                               fresh |-> probes = <<>>]]
               /\ UNCHANGED probes
    /\ usage' = <<>>
    /\ UNCHANGED <<sqlvars, cfgvars, partvars, toolvars, reqvars, rlvars, lock>>

\* async with self._lock: the task gets the lock once it is free
RLAcquire(t) ==
    /\ task[t].pc = "waiting"
    /\ lock = 0
    /\ lock' = t
    /\ task' = [task EXCEPT ![t].pc = "locked"]
    /\ usage' = <<>>
    /\ UNCHANGED <<sqlvars, cfgvars, partvars, toolvars, reqvars, rlvars, probes>>

\* The body under the lock, which holds no await: the clock is read, the
\* record is pruned and tested, the lock is released
RLRun(t) ==
    /\ task[t].pc = "locked"
    /\ lock = t
    /\ LET verdict == CheckRateLimit(records, task[t].key, now)
       IN /\ records' = verdict.records
          /\ probes' = Append(probes, Returned(task[t].key, now, verdict.allowed,
                                               task[t].fresh))
    /\ lock' = 0
    /\ task' = [task EXCEPT ![t] = IdleTask]
    /\ usage' = <<>>
    /\ UNCHANGED <<sqlvars, cfgvars, partvars, toolvars, reqvars, now>>

\* get_current_usage(key): synchronous, takes no lock
RLUsage ==
    /\ \E key \in Keys :
          LET answer == GetCurrentUsage(records, key, now)
          IN usage' = <<[key |-> key,
                         current_requests |-> answer.current_requests,
                         remaining_requests |-> answer.remaining_requests]>>
    /\ UNCHANGED <<sqlvars, cfgvars, partvars, toolvars, reqvars, rlvars, task, lock, probes>>

\* The clock moves on
RLTick ==
    /\ now < MaxClock
    /\ now' = now + 1
    /\ usage' = <<>>
    /\ UNCHANGED <<sqlvars, cfgvars, partvars, toolvars, reqvars, records, task, lock, probes>>

RLNext ==
    \/ \E t \in Tasks : RLCall(t)
    \/ \E t \in Tasks : RLAcquire(t)
    \/ \E t \in Tasks : RLRun(t)
    \/ RLUsage
    \/ RLTick

SpecRL == RLInit /\ [][RLNext]_vars


\* The timestamps of a key's record that lie within [current_time - W,
\* current_time], both ends included
CountedClosed(recs, key, current_time) ==
    Cardinality({i \in DOMAIN RecordOf(recs, key) :
                    /\ RecordOf(recs, key)[i] >= current_time - rl_config.time_window
                    /\ RecordOf(recs, key)[i] <= current_time})

\* A call of check_rate_limit returns in this step
ProbeReturns == Len(probes') = Len(probes) + 1

\* C17: with the limiter enabled, at every instant every key's record holds
\* at most N timestamps within [now - W, now], and whenever a probe returns
\* allowed, that count was below N immediately before the probe
C17_WindowCountBelowLimit ==
    /\ [](rl_config.enabled =>
             \A key \in Keys :
                CountedClosed(records, key, now) <= rl_config.max_requests)
    /\ [][(rl_config.enabled /\ ProbeReturns /\ Last(probes').allowed) =>
             CountedClosed(records, Last(probes').key, now)
                 < rl_config.max_requests]_vars

\* The calls of check_rate_limit for one key that have returned, in order
KeyProbes(key) == SelectSeq(probes, LAMBDA e : e.key = key)

Smaller(a, b) == IF a < b THEN a ELSE b

\* C18: on an enabled limiter, among the probes of one key that all fall
\* within a single window, exactly the first min(k, N) are allowed and every
\* later one is denied; usage(key) asked within that window then reports
\* current = min(k, N) and remaining = N - min(k, N)
C18_FirstNAllowedThenDenied ==
    rl_config.enabled =>
        \A key \in Keys :
            LET P == KeyProbes(key)
                k == Len(P)
                N == rl_config.max_requests
            IN /\ \A j \in DOMAIN P :
                      P[j].time - P[1].time < rl_config.time_window =>
                          (P[j].allowed <=> j <= N)
               /\ ( /\ usage # <<>>
                    /\ usage[1].key = key
                    /\ (k > 0 => now - P[1].time < rl_config.time_window) ) =>
                      /\ usage[1].current_requests = Smaller(k, N)
                      /\ usage[1].remaining_requests = N - Smaller(k, N)

\* More probes than the limit within one window, one of them denied, and the
\* usage of the key reported
C18_Witness ==
    /\ rl_config.enabled
    /\ rl_config.max_requests >= 1
    /\ \E key \in Keys :
          LET P == KeyProbes(key)
          IN /\ Len(P) > rl_config.max_requests
             /\ now - P[1].time < rl_config.time_window
             /\ ~Last(P).allowed
             /\ usage # <<>>
             /\ usage[1].key = key
             /\ usage[1].current_requests = rl_config.max_requests

\* The oldest timestamp of a non-empty record: min(record.timestamps)
Oldest(timestamps) ==
    CHOOSE ts \in Range(timestamps) : \A other \in Range(timestamps) : ts <= other

\* C19: with N >= 1, a key whose latest probe was denied is allowed on the
\* next probe made once the oldest timestamp of its record is more than W
\* old
C19_WaitedOutWindowReadmitted ==
    [][( /\ rl_config.enabled
         /\ rl_config.max_requests >= 1
         /\ ProbeReturns
         /\ KeyProbes(Last(probes').key) # <<>>
         /\ ~Last(KeyProbes(Last(probes').key)).allowed
         /\ RecordOf(records, Last(probes').key) # <<>>
         /\ Oldest(RecordOf(records, Last(probes').key)) + rl_config.time_window
                < Last(probes').time ) =>
           Last(probes').allowed]_vars

\* A key was denied and, more than W after its oldest admission, allowed
C19_Witness ==
    /\ rl_config.enabled
    /\ rl_config.max_requests >= 1
    /\ \E key \in Keys :
          LET P == KeyProbes(key)
          IN \E j \in DOMAIN P :
                /\ j > 1 /\ j = Len(P)
                /\ ~P[j - 1].allowed
                /\ P[j].allowed
                /\ P[1].time + rl_config.time_window < P[j].time

\* The returned probes of a key that were issued before any call had
\* returned: they were all inside check_rate_limit at the same time
ConcurrentProbes(key) == SelectSeq(probes, LAMBDA e : e.key = key /\ e.fresh)

\* Every probe of the key so far was one of the concurrent ones, they have
\* all returned, and they fall within one window
ConcurrentBatchDone(key) ==
    /\ ConcurrentProbes(key) = KeyProbes(key)
    /\ \A t \in Tasks : ~(task[t].pc # "idle" /\ task[t].key = key)
    /\ \A i, j \in DOMAIN KeyProbes(key) :
          KeyProbes(key)[j].time - KeyProbes(key)[i].time < rl_config.time_window

AllowedCount(entries) ==
    Cardinality({i \in DOMAIN entries : entries[i].allowed})

\* C20: when M probes of one key are issued concurrently within one window
\* of an enabled limiter with limit N, exactly min(M, N) of them are
\* allowed, whatever the order in which the tasks get the lock
C20_ConcurrentProbesAdmitMinMN ==
    rl_config.enabled =>
        \A key \in Keys :
            ConcurrentBatchDone(key) =>
                AllowedCount(KeyProbes(key))
                    = Smaller(Len(KeyProbes(key)), rl_config.max_requests)

\* Every task probed the same key at the same time, more of them than the
\* limit admits, and all have returned
C20_Witness ==
    /\ rl_config.enabled
    /\ rl_config.max_requests >= 1
    /\ \E key \in Keys :
          /\ ConcurrentBatchDone(key)
          /\ Len(KeyProbes(key)) = MaxTasks
          /\ Len(KeyProbes(key)) > rl_config.max_requests
          /\ AllowedCount(KeyProbes(key)) = rl_config.max_requests

\* The admissions of a key that are less than W old at current_time
RecentAdmissions(key, current_time) ==
    {i \in DOMAIN KeyProbes(key) :
        /\ KeyProbes(key)[i].allowed
        /\ KeyProbes(key)[i].time + rl_config.time_window > current_time}

\* C39: a denied probe records nothing: it leaves the key's timestamps as
\* they were but for the expired ones, and a probe is allowed exactly when
\* fewer than N admissions of the key are less than W old, however many
\* denied probes came in between; so denied probes never postpone the
\* instant of the next admission.
C39_DeniedProbeRecordsNothing ==
    [][(rl_config.enabled /\ ProbeReturns) =>
          LET key == Last(probes').key
              before == RecordOf(records, key)
              unexpired == {i \in DOMAIN before :
                               before[i] + rl_config.time_window > now}
          IN /\ ~Last(probes').allowed =>
                    /\ Len(RecordOf(records', key)) = Cardinality(unexpired)
                    /\ \A i \in unexpired :
                           RecordOf(records', key)
                               [Cardinality({j \in unexpired : j <= i})] = before[i]
             /\ Last(probes').allowed <=>
                    Cardinality(RecentAdmissions(key, now)) < rl_config.max_requests]_vars

\* A key was admitted, probed and denied at a later instant, and admitted
\* again exactly W after the first admission
C39_Witness ==
    /\ rl_config.enabled
    /\ rl_config.max_requests = 1
    /\ \E key \in Keys :
          LET P == KeyProbes(key)
          IN /\ Len(P) = 3
             /\ P[1].allowed /\ ~P[2].allowed /\ P[3].allowed
             /\ P[2].time > P[1].time
             /\ P[3].time = P[1].time + rl_config.time_window


\* ------------------------------------------------------------ SpecKeys
\* The rate limiter's calls made one after another on several keys, the
\* empty string among them: check_rate_limit, reset and the clock.
AllKeys == Keys \cup {""}

Called(op, key) == <<[op |-> op, key |-> key]>>

KeysInit ==
    /\ in_sql = NoSql /\ in_policy = Policy("", <<>>, {}, FALSE, FALSE, 0)
    /\ validation = <<>> /\ formatted = <<>> /\ security = <<>>
    /\ load_on_startup = TRUE /\ default_database = None
    /\ explain_cfg = Explain(FALSE, FALSE, 0)
    /\ IdleRequest
    /\ rl_config \in {RateLimitConfig(TRUE, max_requests, TimeWindow) :
                         max_requests \in 0..MaxRequestsPerWindow}
    /\ records = [k \in {} |-> <<>>] /\ now = 0
    /\ IdleTasks /\ IdleTools /\ IdleParts

\* check_rate_limit(key), from the call to its return
KeysProbe ==
    /\ \E key \in AllKeys :
          /\ records' = CheckRateLimit(records, key, now).records
          /\ called' = Called("probe", key)
    /\ UNCHANGED <<sqlvars, cfgvars, reqvars, toolvars, taskvars, now, retry, registry, cache, fetched>>

\* reset(key), key None included
KeysReset ==
    /\ \E key \in AllKeys \cup {None} :
          /\ records' = Reset(records, key)
          /\ called' = Called("reset", key)
    /\ UNCHANGED <<sqlvars, cfgvars, reqvars, toolvars, taskvars, now, retry, registry, cache, fetched>>

KeysTick ==
    /\ now < MaxTime
    /\ now' = now + 1
    /\ called' = <<>>
    /\ UNCHANGED <<sqlvars, cfgvars, reqvars, toolvars, taskvars, records, retry, registry, cache, fetched>>

KeysNext == KeysProbe \/ KeysReset \/ KeysTick

SpecKeys == KeysInit /\ [][KeysNext]_vars

\* What a key shows of itself: its record, its usage and the verdict a probe
\* of it would get
KeyView(recs, key) ==
    [record |-> RecordOf(recs, key),
     usage |-> GetCurrentUsage(recs, key, now),
     allowed |-> CheckRateLimit(recs, key, now).allowed]

\* C21: a probe or a reset of one key leaves the record, the reported usage
\* and the allow/deny outcome of every other key as they were
C21_KeysIndependent ==
    [][(called' # <<>> /\ called'[1].key # None) =>
          \A other \in AllKeys \ {called'[1].key} :
              KeyView(records', other) = KeyView(records, other)]_vars


\* ----------------------------------------------------------- SpecRetry
\* One call through a retry wrapper of utils/retry.py, for every wrapper,
\* every max_attempts within the bound and every behaviour of the wrapped
\* function.
Exceptions == TimeoutRetryable \cup ApiRetryable \cup DbRetryable \cup {"ValueError"}

\* How the call ended: not yet, with the wrapped function's result, or with
\* an exception and the invocation that raised it (0: none did)
NotEnded == [how |-> "none", exc |-> "", invocation |-> 0]
Returns(invocation) == [how |-> "return", exc |-> "", invocation |-> invocation]
Raises(exc, invocation) == [how |-> "raise", exc |-> exc, invocation |-> invocation]

RetryInit ==
    /\ in_sql = NoSql /\ in_policy = Policy("", <<>>, {}, FALSE, FALSE, 0)
    /\ validation = <<>> /\ formatted = <<>> /\ security = <<>>
    /\ load_on_startup = TRUE /\ default_database = None
    /\ explain_cfg = Explain(FALSE, FALSE, 0)
    /\ IdleRequest
    /\ rl_config = RateLimitConfig(TRUE, MaxRequestsPerWindow, TimeWindow)
    /\ records = [k \in {} |-> <<>>] /\ now = 0
    /\ IdleTasks /\ IdleTools /\ IdleKeys /\ IdleRegistry /\ IdleCache /\ IdleRows
    /\ \E wrapper \in Wrappers, max_attempts \in 0..MaxAttempts :
          retry = [wrapper |-> wrapper, max_attempts |-> max_attempts,
                   pc |-> "loop", attempt |-> 0,
                   current_delay |-> FirstDelay(wrapper),
                   outcomes |-> <<>>, delays |-> <<>>, ended |-> NotEnded]

\* One pass of `for attempt in range(max_attempts)`: the wrapped function is
\* awaited and returns or raises
RetryInvoke ==
    /\ retry.pc = "loop"
    /\ retry.attempt < retry.max_attempts
    /\ \E outcome \in {"ok"} \cup Exceptions :
          LET invocation == Len(retry.outcomes) + 1
              decision == WrapperDecision(retry.wrapper, retry.max_attempts,
                                          retry.attempt, outcome)
          IN retry' = [retry EXCEPT
                          !.outcomes = Append(@, outcome),
                          !.pc = CASE decision = "return" -> "done"
                                   [] decision = "raise" -> "done"
                                   [] decision = "retry" -> "sleep",
                          !.ended = CASE decision = "return" -> Returns(invocation)
                                      [] decision = "raise" -> Raises(outcome, invocation)
                                      [] decision = "retry" -> @]
    /\ UNCHANGED <<sqlvars, cfgvars, reqvars, toolvars, rlvars, taskvars, called, registry, cache, fetched>>

\* await asyncio.sleep(current_delay); current_delay *= backoff
RetrySleep ==
    /\ retry.pc = "sleep"
    /\ retry' = [retry EXCEPT
                    !.delays = Append(@, retry.current_delay),
                    !.current_delay = @ * Backoff(retry.wrapper),
                    !.attempt = @ + 1,
                    !.pc = "loop"]
    /\ UNCHANGED <<sqlvars, cfgvars, reqvars, toolvars, rlvars, taskvars, called, registry, cache, fetched>>

\* The for loop ran out: raise RuntimeError("Should not reach here")
RetryExhausted ==
    /\ retry.pc = "loop"
    /\ retry.attempt >= retry.max_attempts
    /\ retry' = [retry EXCEPT !.pc = "done", !.ended = Raises("RuntimeError", 0)]
    /\ UNCHANGED <<sqlvars, cfgvars, reqvars, toolvars, rlvars, taskvars, called, registry, cache, fetched>>

RetryNext == RetryInvoke \/ RetrySleep \/ RetryExhausted

SpecRetry == RetryInit /\ [][RetryNext]_vars

\* C22: a wrapper with max_attempts = n >= 1 invokes the wrapped function at
\* most n times; when every invocation raises a retryable error it invokes
\* it exactly n times and sleeps exactly n - 1 times, never after the last
\* failed attempt
C22_AtMostNInvocations ==
    retry.max_attempts >= 1 =>
        /\ Len(retry.outcomes) <= retry.max_attempts
        /\ Len(retry.delays) <= Len(retry.outcomes)
        /\ ( /\ retry.pc = "done"
             /\ \A i \in DOMAIN retry.outcomes :
                   retry.outcomes[i] \in Retryable(retry.wrapper) ) =>
               /\ Len(retry.outcomes) = retry.max_attempts
               /\ Len(retry.delays) = retry.max_attempts - 1

\* Every one of at least two attempts failed with a retryable error
C22_Witness ==
    /\ retry.pc = "done"
    /\ retry.max_attempts >= 2
    /\ Len(retry.outcomes) = retry.max_attempts
    /\ \A i \in DOMAIN retry.outcomes :
          retry.outcomes[i] \in Retryable(retry.wrapper)
    /\ Len(retry.delays) = retry.max_attempts - 1

\* C23: for every max_attempts, a call through a wrapper returns the wrapped
\* function's result or raises the exception its last invocation raised,
\* never an exception of the wrapper's own
C23_NoSyntheticException ==
    retry.pc = "done" =>
        /\ retry.outcomes # <<>>
        /\ retry.ended.invocation = Len(retry.outcomes)
        /\ \/ retry.ended.how = "return" /\ Last(retry.outcomes) = "ok"
           \/ retry.ended.how = "raise" /\ retry.ended.exc = Last(retry.outcomes)

\* C24: an exception outside the wrapper's retryable set is raised to the
\* caller by the invocation that raised it, which is the last one, with no
\* delay after it; raised by the first invocation, it propagates after exactly
\* one invocation and no delay, whatever attempts remain
C24_NonRetryablePropagatesAtOnce ==
    \A i \in DOMAIN retry.outcomes :
        retry.outcomes[i] \notin Retryable(retry.wrapper) \cup {"ok"} =>
            /\ i = Len(retry.outcomes)
            /\ retry.pc = "done"
            /\ retry.ended = Raises(retry.outcomes[i], i)
            /\ Len(retry.delays) = i - 1

\* The first invocation raised a non-retryable exception with attempts left
C24_Witness ==
    /\ retry.pc = "done"
    /\ retry.max_attempts >= 2
    /\ Len(retry.outcomes) = 1
    /\ retry.outcomes[1] \notin Retryable(retry.wrapper) \cup {"ok"}
    /\ retry.ended = Raises(retry.outcomes[1], 1)
    /\ retry.delays = <<>>


\* ------------------------------------------------------------ SpecRows
\* The result-size limit of execute_query on every short result and every
\* max_rows argument around its length.
RowValues == {"a", "b"}

RECURSIVE SeqsUpTo(_, _)
SeqsUpTo(values, n) ==
    IF n = 0 THEN {<<>>}
    ELSE LET shorter == SeqsUpTo(values, n - 1)
         IN shorter \cup {Append(rows, v) : rows \in shorter, v \in values}

Fetched(rows, limit, returned, kept) ==
    [rows |-> rows, max_rows |-> limit, returned |-> returned, results |-> kept]

RowsInit ==
    /\ in_sql = NoSql /\ in_policy = Policy("", <<>>, {}, FALSE, FALSE, 0)
    /\ validation = <<>> /\ formatted = <<>> /\ security = <<>>
    /\ load_on_startup = TRUE /\ default_database = None
    /\ explain_cfg = Explain(FALSE, FALSE, 0)
    /\ IdleRequest
    /\ rl_config = RateLimitConfig(TRUE, MaxRequestsPerWindow, TimeWindow)
    /\ records = [k \in {} |-> <<>>] /\ now = 0
    /\ IdleTasks /\ IdleTools /\ IdleKeys /\ IdleRetry /\ IdleRegistry /\ IdleCache
    /\ \E rows \in SeqsUpTo(RowValues, MaxResultRows), limit \in 0..(MaxResultRows + 1) :
          fetched = Fetched(rows, limit, FALSE, <<>>)

\* rows = await conn.fetch(final_sql), the size limit, results = [dict(row)
\* for row in rows]
RowsReturn ==
    /\ ~fetched.returned
    /\ fetched' = [fetched EXCEPT !.returned = TRUE,
                                  !.results = TruncateRows(fetched.rows, fetched.max_rows)]
    /\ UNCHANGED <<sqlvars, cfgvars, reqvars, toolvars, rlvars, taskvars, called, retry, registry, cache>>

RowsNext == RowsReturn

SpecRows == RowsInit /\ [][RowsNext]_vars

\* C26: of a result of r rows, execute_query returns the first
\* min(r, max_rows) rows in their order: max_rows rows come back in full,
\* max_rows + 1 rows come back as max_rows rows
C26_FirstMaxRowsReturned ==
    fetched.returned =>
        /\ Len(fetched.results) = Smaller(Len(fetched.rows), fetched.max_rows)
        /\ \A i \in DOMAIN fetched.results : fetched.results[i] = fetched.rows[i]

\* A result of max_rows + 1 rows, not all alike, came back as max_rows rows
C26_Witness ==
    /\ fetched.returned
    /\ fetched.max_rows >= 1
    /\ Len(fetched.rows) = fetched.max_rows + 1
    /\ Len(fetched.results) = fetched.max_rows
    /\ fetched.rows[1] # fetched.rows[Len(fetched.rows)]


\* --------------------------------------------------------- SpecRegistry
\* MultiDatabaseExecutorManager: add_database, close() of one executor and
\* close_all.  An executor is known by the number of its pool; a pool is the
\* number of close() calls it has received.
RegistryNames == Range(DatabaseNames)

\* What the last call of the manager was and how it ended
RegistryCall(op, name, outcome) == <<[op |-> op, name |-> name, outcome |-> outcome]>>

\* The manager: keys is the order of the dict self.executors, executors
\* maps a name to its executor's pool, pools counts the close() calls each
\* pool received, closing is the iterator of a close_all that is waiting
\* for a pool.close() (<<>>: no close_all is running), waiting is the name
\* of the executor whose close() is waiting for its pool.close() (<<>>: no
\* close() called on its own is running)
Registry(keys, executors, pools, last, closing) ==
    [keys |-> keys, executors |-> executors, pools |-> pools, last |-> last,
     closing |-> closing, waiting |-> <<>>]

\* add_database: the executor is built, initialize() creates its pool (or
\* raises), and self.executors[db_config.name] = executor
AddDatabase(reg, name, initialized) ==
    IF ~initialized
    THEN [reg EXCEPT !.last = RegistryCall("add", name, "raise")]
    ELSE [reg EXCEPT
             !.keys = IF name \in Range(@) THEN @ ELSE Append(@, name),
             !.executors = [n \in DOMAIN @ \cup {name} |->
                               IF n = name THEN Len(reg.pools) + 1 ELSE @[n]],
             !.pools = Append(@, 0),
             !.last = RegistryCall("add", name, "ok")]

\* DatabaseExecutor.close of the executors in `names`: if self.pool: await
\* self.pool.close()
ClosePools(reg, names) ==
    [i \in DOMAIN reg.pools |->
        IF \E n \in names : reg.executors[n] = i
        THEN reg.pools[i] + 1 ELSE reg.pools[i]]

\* close_all, one turn of `for executor in self.executors.values()`: the
\* iterator made when the dict held `size` keys is advanced to position pos.
\* It raises RuntimeError when the dict has changed size, ends the loop
\* past the last key, and else close() of the executor now at pos calls
\* pool.close() and waits for it
CloseAllNext(reg, pos, size) ==
    IF Len(reg.keys) # size
    THEN [reg EXCEPT !.closing = <<>>,
                     !.last = RegistryCall("close_all", None, "RuntimeError")]
    ELSE IF pos > Len(reg.keys)
    THEN [reg EXCEPT !.closing = <<>>,
                     !.last = RegistryCall("close_all", None, "ok")]
    ELSE [reg EXCEPT !.pools = ClosePools(reg, {reg.keys[pos]}),
                     !.closing = <<[pos |-> pos, size |-> size]>>]

\* The pool close_all calls close() on when its iterator reaches pos, if any
\* (0: none)
PoolAt(reg, pos, size) ==
    IF Len(reg.keys) = size /\ pos <= Len(reg.keys)
    THEN reg.executors[reg.keys[pos]] ELSE 0

RegistryInit ==
    /\ in_sql = NoSql /\ in_policy = Policy("", <<>>, {}, FALSE, FALSE, 0)
    /\ validation = <<>> /\ formatted = <<>> /\ security = <<>>
    /\ load_on_startup = TRUE /\ default_database = None
    /\ explain_cfg = Explain(FALSE, FALSE, 0)
    /\ IdleRequest
    /\ rl_config = RateLimitConfig(TRUE, MaxRequestsPerWindow, TimeWindow)
    /\ records = [k \in {} |-> <<>>] /\ now = 0
    /\ IdleTasks /\ IdleTools /\ IdleKeys /\ IdleRetry /\ IdleCache /\ IdleRows
    /\ registry = Registry(<<>>, [n \in {} |-> 0], <<>>, <<>>, <<>>)

\* add_database, from the return of create_pool to its own return (no await
\* lies between them)
RegistryAdd ==
    /\ Len(registry.pools) < MaxPools
    /\ \E name \in RegistryNames, initialized \in BOOLEAN :
          registry' = AddDatabase(registry, name, initialized)
    /\ UNCHANGED <<sqlvars, cfgvars, reqvars, toolvars, rlvars, taskvars, called, retry, cache, fetched>>

\* close() of a registered executor is called: up to await self.pool.close()
\* (one close() called on its own runs at a time)
RegistryClose ==
    /\ registry.waiting = <<>>
    /\ \E name \in DOMAIN registry.executors :
          /\ registry.pools[registry.executors[name]] < MaxCloses
          /\ registry' = [registry EXCEPT
                             !.pools = ClosePools(registry, {name}),
                             !.waiting = <<name>>]
    /\ UNCHANGED <<sqlvars, cfgvars, reqvars, toolvars, rlvars, taskvars, called, retry, cache, fetched>>

\* The pool.close() that close() waits for returns or raises, and so does
\* close()
RegistryCloseReturn ==
    /\ registry.waiting # <<>>
    /\ \E closed \in BOOLEAN :
          registry' = [registry EXCEPT
                          !.waiting = <<>>,
                          !.last = RegistryCall("close", registry.waiting[1],
                                                IF closed THEN "ok" ELSE "raise")]
    /\ UNCHANGED <<sqlvars, cfgvars, reqvars, toolvars, rlvars, taskvars, called, retry, cache, fetched>>

\* close_all is called: up to its first await, or to its return when the
\* dict is empty (one close_all runs at a time)
RegistryCloseAll ==
    /\ registry.closing = <<>>
    /\ LET first == PoolAt(registry, 1, Len(registry.keys))
       IN first # 0 => registry.pools[first] < MaxCloses
    /\ registry' = CloseAllNext(registry, 1, Len(registry.keys))
    /\ UNCHANGED <<sqlvars, cfgvars, reqvars, toolvars, rlvars, taskvars, called, retry, cache, fetched>>

\* The pool.close() close_all waits for returns: up to the next await, the
\* RuntimeError or the return; or it raises, and close_all ends with its
\* exception, the executors after it left alone
RegistryCloseAllResume ==
    /\ registry.closing # <<>>
    /\ LET pos == registry.closing[1].pos + 1
           size == registry.closing[1].size
           next == PoolAt(registry, pos, size)
       IN \E closed \in BOOLEAN :
             IF closed
             THEN /\ next # 0 => registry.pools[next] < MaxCloses
                  /\ registry' = CloseAllNext(registry, pos, size)
             ELSE registry' = [registry EXCEPT
                                  !.closing = <<>>,
                                  !.last = RegistryCall("close_all", None, "raise")]
    /\ UNCHANGED <<sqlvars, cfgvars, reqvars, toolvars, rlvars, taskvars, called, retry, cache, fetched>>

RegistryNext ==
    \/ RegistryAdd \/ RegistryClose \/ RegistryCloseReturn
    \/ RegistryCloseAll \/ RegistryCloseAllResume

SpecRegistry == RegistryInit /\ [][RegistryNext]_vars

\* C27: add_database of a name that is already registered ends with a
\* configuration error and leaves the executor and the pool registered under
\* that name as they were
C27_DuplicateAddRejected ==
    [][(registry'.last # registry.last
            /\ registry'.last[1].op = "add"
            /\ registry'.last[1].name \in DOMAIN registry.executors) =>
          /\ registry'.last[1].outcome = "config_error"
          /\ registry'.executors = registry.executors
          /\ registry'.pools = registry.pools]_vars

\* C28: however often close() of an executor or close_all is called, every
\* pool is closed once: it receives at most one close()
C28_PoolsClosedOnce ==
    \A i \in DOMAIN registry.pools : registry.pools[i] <= 1


\* ------------------------------------------------------------ SpecCache
\* SchemaCache: load_schema under retry_on_db_error(max_attempts=3), run by
\* concurrent loaders, and the readers of the schema property and is_loaded.
LoadSchemaMaxAttempts == 3
Loaders == {"startup", "reload"}
TableOrder == <<"users">>
PartOrder == <<"columns", "indexes", "foreign_keys">>
TableParts == Range(PartOrder)

\* The catalog queries of one attempt, in the order load_schema awaits them:
\* the tables, then table by table its columns, indexes and foreign keys,
\* then the custom types
QuerySteps ==
    <<[table |-> "", part |-> "tables"]>>
    \o [k \in 1..(Len(TableOrder) * Len(PartOrder)) |->
          [table |-> TableOrder[((k - 1) \div Len(PartOrder)) + 1],
           part |-> PartOrder[((k - 1) % Len(PartOrder)) + 1]]]
    \o <<[table |-> "", part |-> "custom_types"]>>

\* What connecting, a catalog query or conn.close() can raise
CacheErrors == {"PostgresConnectionError", "PostgresError"}

\* The tables dictionary and the custom types a loader has built so far
Building(by) ==
    [by |-> by,
     tables |-> [t \in Range(TableOrder) |-> {}], custom_types |-> FALSE]

\* The result of query step `step` stored into what is being built
Filled(building, step) ==
    LET q == QuerySteps[step]
    IN CASE q.part = "tables" -> building
         [] q.part = "custom_types" -> [building EXCEPT !.custom_types = TRUE]
         [] OTHER -> [building EXCEPT !.tables[q.table] = @ \cup {q.part}]

\* A snapshot with every part of every table and the custom types
Complete(snapshot) ==
    /\ snapshot.custom_types
    /\ \A t \in DOMAIN snapshot.tables : snapshot.tables[t] = TableParts

Assigns_AfterTables(step) == step >= 1
\* Whether self._schema refers to what the loader builds once query step
\* `step` has returned: the assignment follows the last query
Assigns(step) == step = Len(QuerySteps)

\* self._schema once query step `step` has returned: untouched until
\* self._schema = DatabaseSchema(...) replaces it
Published(schema, built, step) ==
    IF Assigns(step) THEN <<built>> ELSE schema

IdleLoader ==
    [pc |-> "idle", attempt |-> 0, step |-> 0, building |-> <<>>,
     pending |-> "", at |-> "", wrote |-> FALSE, ended |-> ""]

\* The except clause of retry_on_db_error around one attempt that raised
\* exc at `point` (connect, query or close); the attempt's local variables
\* are gone
Failed(loader, exc, point) ==
    LET decision == RetryOnDbError(LoadSchemaMaxAttempts, loader.attempt, exc)
    IN [loader EXCEPT
           !.pending = "", !.step = 0, !.building = <<>>, !.at = point,
           !.pc = IF decision = "retry" THEN "sleep" ELSE "done",
           !.ended = IF decision = "retry" THEN @ ELSE "raise"]

CacheInit ==
    /\ in_sql = NoSql /\ in_policy = Policy("", <<>>, {}, FALSE, FALSE, 0)
    /\ validation = <<>> /\ formatted = <<>> /\ security = <<>>
    /\ load_on_startup = TRUE /\ default_database = None
    /\ explain_cfg = Explain(FALSE, FALSE, 0)
    /\ IdleRequest
    /\ rl_config = RateLimitConfig(TRUE, MaxRequestsPerWindow, TimeWindow)
    /\ records = [k \in {} |-> <<>>] /\ now = 0
    /\ IdleTasks /\ IdleTools /\ IdleKeys /\ IdleRetry /\ IdleRegistry /\ IdleRows
    /\ cache = [schema |-> <<>>, loaders |-> [l \in Loaders |-> IdleLoader],
                read |-> <<>>]

\* load_schema is called
CacheLoad(l) ==
    /\ cache.loaders[l].pc \in {"idle", "done"}
    /\ cache' = [cache EXCEPT !.loaders[l] = [IdleLoader EXCEPT !.pc = "connect"]]
    /\ UNCHANGED <<sqlvars, cfgvars, reqvars, toolvars, rlvars, taskvars, called, retry, registry, fetched>>

\* conn = await asyncpg.connect(...)
CacheConnect(l) ==
    /\ cache.loaders[l].pc = "connect"
    /\ \E outcome \in {"ok"} \cup CacheErrors :
          cache' = [cache EXCEPT !.loaders[l] =
                      IF outcome = "ok"
                      THEN [@ EXCEPT !.pc = "query", !.step = 1, !.building = <<>>]
                      ELSE Failed(@, outcome, "connect")]
    /\ UNCHANGED <<sqlvars, cfgvars, reqvars, toolvars, rlvars, taskvars, called, retry, registry, fetched>>

\* One catalog query returns or raises; after the last one self._schema is
\* assigned and the finally clause starts closing the connection
CacheQuery(l) ==
    /\ cache.loaders[l].pc = "query"
    /\ \E outcome \in {"ok"} \cup CacheErrors :
          LET loader == cache.loaders[l]
              step == loader.step
              built == Filled(IF step = 1 THEN Building(l)
                                          ELSE loader.building[1], step)
          IN IF outcome = "ok"
             THEN cache' = [cache EXCEPT
                      !.schema = Published(@, built, step),
                      !.loaders[l] = [@ EXCEPT
                          !.building = <<built>>,
                          !.wrote = @ \/ Published(cache.schema, built, step) # cache.schema,
                          !.step = IF step = Len(QuerySteps) THEN @ ELSE @ + 1,
                          !.pc = IF step = Len(QuerySteps) THEN "close" ELSE @]]
             ELSE cache' = [cache EXCEPT
                      !.loaders[l] = [@ EXCEPT !.pc = "close", !.pending = outcome]]
    /\ UNCHANGED <<sqlvars, cfgvars, reqvars, toolvars, rlvars, taskvars, called, retry, registry, fetched>>

\* finally: await conn.close(), then the return or the pending exception
CacheClose(l) ==
    /\ cache.loaders[l].pc = "close"
    /\ \E outcome \in {"ok"} \cup CacheErrors :
          cache' = [cache EXCEPT !.loaders[l] =
                      CASE outcome # "ok" -> Failed(@, outcome, "close")
                        [] outcome = "ok" /\ @.pending # "" -> Failed(@, @.pending, "query")
                        [] OTHER -> [@ EXCEPT !.pc = "done", !.ended = "return",
                                             !.step = 0, !.building = <<>>]]
    /\ UNCHANGED <<sqlvars, cfgvars, reqvars, toolvars, rlvars, taskvars, called, retry, registry, fetched>>

\* await asyncio.sleep(delay), then the next attempt
CacheSleep(l) ==
    /\ cache.loaders[l].pc = "sleep"
    /\ cache' = [cache EXCEPT !.loaders[l] =
                    [@ EXCEPT !.pc = "connect", !.attempt = @ + 1]]
    /\ UNCHANGED <<sqlvars, cfgvars, reqvars, toolvars, rlvars, taskvars, called, retry, registry, fetched>>

\* A reader takes the schema property and is_loaded()
CacheRead ==
    /\ cache' = [cache EXCEPT !.read =
                    <<[schema |-> cache.schema, is_loaded |-> cache.schema # <<>>]>>]
    /\ UNCHANGED <<sqlvars, cfgvars, reqvars, toolvars, rlvars, taskvars, called, retry, registry, fetched>>

CacheNext ==
    \/ \E l \in Loaders :
          CacheLoad(l) \/ CacheConnect(l) \/ CacheQuery(l) \/ CacheClose(l) \/ CacheSleep(l)
    \/ CacheRead

SpecCache == CacheInit /\ [][CacheNext]_vars

\* A loader holds a partly built snapshot
PartlyBuilt ==
    \E l \in Loaders :
        /\ cache.loaders[l].pc = "query"
        /\ cache.loaders[l].building # <<>>
        /\ ~Complete(cache.loaders[l].building[1])

\* C29: whatever the loaders are doing, a read returns nothing (before the
\* first load has published), or a complete snapshot, and once a snapshot
\* is published a read never falls back to nothing
C29_ReadsSeeCompleteSnapshots ==
    [][/\ cache'.read # <<>> =>
            /\ cache'.read[1].schema # <<>> => Complete(cache'.read[1].schema[1])
            /\ cache'.read[1].is_loaded = (cache'.read[1].schema # <<>>)
       /\ cache.schema # <<>> => cache'.schema # <<>>
       /\ (cache'.read # cache.read) =>
            cache'.read[1].schema \in {cache.schema, cache'.schema}]_vars

\* A reader holds a complete snapshot, read while one loader was building
\* a new one and the other had published
C29_Witness ==
    /\ PartlyBuilt
    /\ cache.read # <<>>
    /\ cache.read[1].schema # <<>>
    /\ cache.read[1].schema = cache.schema
    /\ \E l \in Loaders : cache.loaders[l].attempt > 0

\* C30: a load that fails at connecting or at a catalog query, on whichever
\* attempt, has left the published snapshot and is_loaded as they were: the
\* call that ends with such an exception has not assigned the snapshot, and
\* the step on which connecting or a query fails changes nothing published
C30_FailedLoadKeepsSnapshot ==
    [][\A l \in Loaders :
          LET before == cache.loaders[l]
              after == cache'.loaders[l]
          IN /\ (after.ended = "raise" /\ after.at \in {"connect", "query"}) => ~after.wrote
             /\ (before.pc \in {"connect", "query"} /\ after.pc \in {"close", "sleep", "done"}
                   /\ (after.pending # "" \/ before.pc = "connect")) =>
                   cache'.schema = cache.schema]_vars


\* ------------------------------------------- the schema on first use (Spec)
\* C31: with startup loading disabled, a request that reaches the schema
\* check has the schema loaded for it: no request ends with the fault
\* schema_not_loaded
C31_LazyLoadOnFirstUse ==
    (~load_on_startup /\ response # <<>>) =>
        response[1].error # "schema_not_loaded"


\* ---------------------------------------------------------- SpecMetrics
\* MetricsCollector called on its own: increment, record_histogram, reset
\* and the accessors get_counter and get_histogram_stats.
\* A key is the metric name with its sorted labels; here the pair of both,
\* the labels a sequence of <<name, value>> sorted by name.
MakeKey(metric, labels) == <<metric, labels>>

NoLabels == <<>>
DatabaseLabels(database) == << <<"database", database>> >>
ErrorLabels(error_type) == << <<"error_type", error_type>> >>
DatabaseErrorLabels(database, error_type) ==
    << <<"database", database>>, <<"error_type", error_type>> >>

Metrics == {"mcp.query.total", "mcp.sql.execution.rows", "test.counter"}
Labels == {NoLabels, DatabaseLabels("main")}
MetricKeys == {MakeKey(m, l) : m \in Metrics, l \in Labels}

\* The value arguments of increment and record_histogram
IncrementValues == {-1, 1, 2}
SampleValues == {1, 2, 3}

CollectorConfig(enabled, collect_query, collect_sql, collect_db) ==
    [enabled |-> enabled, collect_query |-> collect_query,
     collect_sql |-> collect_sql, collect_db |-> collect_db]

\* str.startswith
StartsWith(text, prefix) ==
    Len(text) >= Len(prefix) /\ SubSeq(text, 1, Len(prefix)) = prefix

\* The collect_* flag _should_collect tests for a metric name, decided by
\* the prefix of the name as the code decides it
Category(metric) ==
    CASE StartsWith(metric, "mcp.query.") -> "query"
      [] StartsWith(metric, "mcp.sql.") -> "sql"
      [] \/ StartsWith(metric, "mcp.db.")
         \/ StartsWith(metric, "mcp.schema.")
         \/ StartsWith(metric, "mcp.validation.") -> "db"
      [] OTHER -> "other"

\* MetricsCollector._should_collect
ShouldCollect(config, metric) ==
    /\ config.enabled
    /\ ~(Category(metric) = "query" /\ ~config.collect_query)
    /\ ~(Category(metric) = "sql" /\ ~config.collect_sql)
    /\ ~(Category(metric) = "db" /\ ~config.collect_db)

\* MetricsCollector.get_counter: self._counters.get(key, 0.0)
GetCounter(counters, key) == IF key \in DOMAIN counters THEN counters[key] ELSE 0

\* MetricsCollector.increment
Increment(config, counters, metric, value, labels) ==
    IF ~ShouldCollect(config, metric) THEN counters
    ELSE LET key == MakeKey(metric, labels)
         IN [k \in DOMAIN counters \cup {key} |->
                IF k = key THEN GetCounter(counters, key) + value ELSE counters[k]]

Samples(histograms, key) == IF key \in DOMAIN histograms THEN histograms[key] ELSE <<>>

KeepRecent_KeepsOldest(values) ==
    IF Len(values) > HistogramLimit THEN SubSeq(values, 1, HistogramLimit) ELSE values
\* values[-1000:] once there are more than 1000
KeepRecent(values) ==
    IF Len(values) > HistogramLimit
    THEN SubSeq(values, Len(values) - HistogramLimit + 1, Len(values))
    ELSE values

\* MetricsCollector.record_histogram
RecordHistogram(config, histograms, metric, value, labels) ==
    IF ~ShouldCollect(config, metric) THEN histograms
    ELSE LET key == MakeKey(metric, labels)
         IN [k \in DOMAIN histograms \cup {key} |->
                IF k = key THEN KeepRecent(Append(Samples(histograms, key), value))
                ELSE histograms[k]]

\* MetricsCollector.record_timer, a timer known by its count
RecordTimer(config, timers, metric, labels) ==
    IF ~ShouldCollect(config, metric) THEN timers
    ELSE LET key == MakeKey(metric, labels)
         IN [k \in DOMAIN timers \cup {key} |->
                IF k = key THEN GetCounter(timers, key) + 1 ELSE timers[k]]

\* sorted(values)
RECURSIVE SortedValues(_)
SortedValues(values) ==
    IF values = <<>> THEN <<>>
    ELSE LET least == CHOOSE i \in 1..Len(values) :
                         \A j \in 1..Len(values) : values[i] <= values[j]
         IN <<values[least]>>
            \o SortedValues([j \in 1..(Len(values) - 1) |->
                                IF j < least THEN values[j] ELSE values[j + 1]])

\* MetricsCollector._percentile
Percentile(values, percentile) ==
    IF values = <<>> THEN 0
    ELSE LET sorted_values == SortedValues(values)
             index == (Len(sorted_values) * percentile) \div 100
         IN sorted_values[(IF index < Len(sorted_values) - 1 THEN index
                           ELSE Len(sorted_values) - 1) + 1]

\* MetricsCollector.get_histogram_stats: <<>> for None
GetHistogramStats(histograms, key) ==
    LET value_list == Samples(histograms, key)
    IN IF value_list = <<>> THEN <<>>
       ELSE <<[count |-> Len(value_list),
               p50 |-> Percentile(value_list, 50),
               p95 |-> Percentile(value_list, 95),
               p99 |-> Percentile(value_list, 99)]>>

NoMetrics == [k \in {} |-> 0]

\* The collector, the values record_histogram was given per key since the
\* last reset (history), the number of calls made and what the last call was
Collector(config, counters, histograms, timers, recorded, calls, last) ==
    [config |-> config, counters |-> counters, histograms |-> histograms,
     timers |-> timers, recorded |-> recorded, calls |-> calls, last |-> last]

MetricsInit ==
    /\ in_sql = NoSql /\ in_policy = Policy("", <<>>, {}, FALSE, FALSE, 0)
    /\ validation = <<>> /\ formatted = <<>> /\ security = <<>>
    /\ load_on_startup = TRUE /\ default_database = None
    /\ explain_cfg = Explain(FALSE, FALSE, 0)
    /\ IdleRequest
    /\ rl_config = RateLimitConfig(TRUE, MaxRequestsPerWindow, TimeWindow)
    /\ records = [k \in {} |-> <<>>] /\ now = 0
    /\ IdleTasks /\ IdleParts
    /\ server = <<>>
    /\ \E config \in {CollectorConfig(TRUE, TRUE, TRUE, TRUE),
                        CollectorConfig(FALSE, TRUE, TRUE, TRUE),
                        CollectorConfig(TRUE, FALSE, TRUE, TRUE),
                        CollectorConfig(TRUE, TRUE, FALSE, TRUE),
                        CollectorConfig(TRUE, TRUE, TRUE, FALSE)} :
          collector = Collector(config, NoMetrics, NoMetrics, NoMetrics, NoMetrics, 0, <<>>)

MetricsIncrement ==
    /\ collector.calls < MaxMetricCalls
    /\ \E metric \in {"mcp.query.total", "mcp.db.connection_pool.size", "test.counter"},
          value \in IncrementValues, labels \in Labels :
          /\ metric = "mcp.db.connection_pool.size" => (value = 1 /\ labels = NoLabels)
          /\ collector' = [collector EXCEPT
                 !.counters = Increment(collector.config, @, metric, value, labels),
                 !.calls = @ + 1,
                 !.last = <<[op |-> "increment", key |-> MakeKey(metric, labels)]>>]
    /\ UNCHANGED <<sqlvars, cfgvars, reqvars, rlvars, taskvars, partvars, server>>

MetricsRecordHistogram ==
    /\ collector.calls < MaxMetricCalls
    /\ \E metric \in {"mcp.sql.execution.rows"}, value \in SampleValues, labels \in Labels :
          LET key == MakeKey(metric, labels)
          IN collector' = [collector EXCEPT
              !.histograms = RecordHistogram(collector.config, @, metric, value, labels),
              !.recorded = IF ShouldCollect(collector.config, metric)
                           THEN [k \in DOMAIN @ \cup {key} |->
                                    IF k = key THEN Append(Samples(@, key), value)
                                    ELSE @[k]]
                           ELSE @,
              !.calls = @ + 1,
              !.last = <<[op |-> "record_histogram", key |-> key]>>]
    /\ UNCHANGED <<sqlvars, cfgvars, reqvars, rlvars, taskvars, partvars, server>>

\* MetricsCollector.reset
MetricsReset ==
    /\ collector.last # <<>>
    /\ collector.last[1].op # "reset"
    /\ collector' = [collector EXCEPT
          !.counters = NoMetrics, !.histograms = NoMetrics, !.timers = NoMetrics,
          !.recorded = NoMetrics,
          !.last = <<[op |-> "reset", key |-> MakeKey("", NoLabels)]>>]
    /\ UNCHANGED <<sqlvars, cfgvars, reqvars, rlvars, taskvars, partvars, server>>

\* get_counter and get_histogram_stats of one key
MetricsObserve ==
    /\ \E key \in MetricKeys :
          collector' = [collector EXCEPT
              !.last = <<[op |-> "observe", key |-> key,
                          counter |-> GetCounter(collector.counters, key),
                          stats |-> GetHistogramStats(collector.histograms, key)]>>]
    /\ UNCHANGED <<sqlvars, cfgvars, reqvars, rlvars, taskvars, partvars, server>>

MetricsNext ==
    MetricsIncrement \/ MetricsRecordHistogram \/ MetricsReset \/ MetricsObserve

SpecMetrics == MetricsInit /\ [][MetricsNext]_vars

\* C34: between two observations with no reset in between, no counter has
\* become smaller, whatever values increment was given
C34_CountersNeverDecrease ==
    [][(collector'.last # <<>> /\ collector'.last[1].op # "reset") =>
          \A key \in MetricKeys :
              GetCounter(collector'.counters, key) >= GetCounter(collector.counters, key)]_vars

\* How many of the values are below v, and how many are at most v
Below(values, v) == Cardinality({i \in 1..Len(values) : values[i] < v})
AtMost(values, v) == Cardinality({i \in 1..Len(values) : values[i] <= v})

\* v is the value of rank k (from 0) among the values
HasRank(values, v, k) == Below(values, v) <= k /\ k < AtMost(values, v)

\* The last min(n, limit) of the values recorded
MostRecent(values) ==
    LET n == Len(values)
        kept == IF n < HistogramLimit THEN n ELSE HistogramLimit
    IN [i \in 1..kept |-> values[n - kept + i]]

\* C35: a histogram holds the most recent min(n, limit) of the n values
\* recorded under its key, in the order they came, and the count and the
\* percentiles it reports are those of these values alone
C35_HistogramKeepsMostRecent ==
    /\ \A key \in MetricKeys :
          Samples(collector.histograms, key) = MostRecent(Samples(collector.recorded, key))
    /\ (collector.last # <<>> /\ collector.last[1].op = "observe") =>
          LET recent == MostRecent(Samples(collector.recorded, collector.last[1].key))
              stats == collector.last[1].stats
              rank(p) == LET k == (Len(recent) * p) \div 100
                         IN IF k < Len(recent) - 1 THEN k ELSE Len(recent) - 1
          IN IF recent = <<>> THEN stats = <<>>
             ELSE /\ stats # <<>>
                  /\ stats[1].count = Len(recent)
                  /\ HasRank(recent, stats[1].p50, rank(50))
                  /\ HasRank(recent, stats[1].p95, rank(95))
                  /\ HasRank(recent, stats[1].p99, rank(99))

\* More values than the histogram keeps were recorded under a key, the
\* oldest differs from those kept, and the key's statistics were read
C35_Witness ==
    /\ collector.last # <<>>
    /\ collector.last[1].op = "observe"
    /\ LET all == Samples(collector.recorded, collector.last[1].key)
       IN /\ Len(all) > HistogramLimit
          /\ all[1] > all[Len(all)]
          /\ collector.last[1].stats # <<>>
          /\ collector.last[1].stats[1].count = HistogramLimit


\* ------------------------------------------------------------- SpecTool
\* The query tool with its metrics: query() of the server and process_query
\* of the processor it calls, the collaborators' answers drawn freely.
Inc(c, metric, labels) ==
    [c EXCEPT !.counters = Increment(c.config, @, metric, 1, labels)]
Timed(c, metric, labels) ==
    [c EXCEPT !.timers = RecordTimer(c.config, @, metric, labels)]
Observed(c, metric, value, labels) ==
    [c EXCEPT !.histograms = RecordHistogram(c.config, @, metric, value, labels)]

\* Where a call of query() stands once it has run up to its next await or
\* to its return: pc is the await it waits at ("generation", "execution",
\* "validation") or "returned"; error is that of the result ("" while the
\* call runs, None for a QueryResponse)
Waiting(c, at) == [collector |-> c, pc |-> at, error |-> ""]
Answered(c, error) == [collector |-> c, pc |-> "returned", error |-> error]

\* finally: record_timer(QUERY_DURATION, labels={"database": database or "default"})
Finally(c, database) ==
    Timed(c, "mcp.query.duration_ms",
          DatabaseLabels(IF Truthy(database) THEN database ELSE "default"))

\* query(): the metrics of a call the rate limiter denied
DeniedByLimiter(c, name) ==
    Inc(c, "mcp.rate_limit.exceeded", DatabaseLabels(name))

\* query() after process_query returned a QueryError: QUERY_ERROR with the
\* database and the error type, then the finally block
Faulted(c, database, name, error) ==
    Answered(Finally(Inc(c, "mcp.query.error", DatabaseErrorLabels(name, error)),
                     database),
             error)

\* query() when its try block raised: except ValueError answers
\* invalid_database, except Exception answers internal_error
Raised(c, database, exception) ==
    LET error == IF exception = "ValueError" THEN "invalid_database"
                 ELSE "internal_error"
    IN Answered(Finally(Inc(c, "mcp.query.error", ErrorLabels(error)), database),
                error)

\* query(query, database) once ensure_initialized has returned, from its
\* first line to the await of generate_sql or to its return.  query is None
\* for an argument that is no string (QueryRequest raises a ValidationError,
\* a ValueError); processing is "return", or the exception of a processor
\* that raises.  check_rate_limit finds its lock free and runs without
\* yielding.
QueryTool(c, recs, database, query, current_time, processing) ==
    LET counted == Inc(c, "mcp.query.total", NoLabels)
        name == GetDatabaseName(database)
        verdict == CheckRateLimit(recs, name, current_time)
        checks == Inc(counted, "mcp.rate_limit.checks", NoLabels)
        step ==
            IF ~verdict.allowed
            THEN Answered(Finally(DeniedByLimiter(checks, name), database),
                          "rate_limit_exceeded")
            ELSE IF name \notin QueryProcessors
            THEN Answered(Finally(Inc(checks, "mcp.query.error",
                                      DatabaseErrorLabels(name, "processor_not_found")),
                                  database),
                          "internal_error")
            ELSE IF query = None THEN Raised(checks, database, "ValueError")
            ELSE IF processing # "return" THEN Raised(checks, database, processing)
            ELSE IF ~SchemaLoaded
            THEN Faulted(checks, database, name, "schema_not_loaded")
            ELSE Waiting(Inc(checks, "mcp.sql.generation.total", DatabaseLabels(name)),
                         "generation")
    IN IF name = ""
       THEN [records |-> recs, step |-> Raised(counted, database, "ValueError")]
       ELSE [records |-> verdict.records, step |-> step]

\* process_query from the return of generate_sql ("ok" or "raise") over
\* validate_sql ("valid", "invalid" or "raise") and format_sql to the await
\* of execute_query
GenerationStage(c, database, name, generation, checked) ==
    IF generation = "raise"
    THEN Faulted(Inc(c, "mcp.sql.generation.error", DatabaseLabels(name)),
                 database, name, "ai_generation_failed")
    ELSE LET drafted == Timed(Inc(c, "mcp.sql.generation.success", DatabaseLabels(name)),
                              "mcp.sql.generation.duration_ms", DatabaseLabels(name))
         IN CASE checked = "raise" -> Faulted(drafted, database, name, "internal_error")
              [] checked = "invalid" -> Faulted(drafted, database, name, "validation_failed")
              [] OTHER -> Waiting(Inc(drafted, "mcp.sql.execution.total",
                                      DatabaseLabels(name)),
                                  "execution")

\* process_query from the return of execute_query (rows, or "raise") to the
\* await of validate_results
ExecutionStage(c, database, name, execution, rows) ==
    IF execution = "raise"
    THEN Faulted(Inc(c, "mcp.sql.execution.error", DatabaseLabels(name)),
                 database, name, "execution_failed")
    ELSE Waiting(
             Inc(Observed(Timed(Inc(c, "mcp.sql.execution.success", DatabaseLabels(name)),
                                "mcp.sql.execution.duration_ms", DatabaseLabels(name)),
                          "mcp.sql.execution.rows", rows, DatabaseLabels(name)),
                 "mcp.validation.total", DatabaseLabels(name)),
             "validation")

\* process_query from the return of validate_results ("valid", "invalid",
\* or "raise" into the outer except clause) to the return of query()
ValidationStage(c, database, name, rows, sanity) ==
    IF sanity = "raise" THEN Faulted(c, database, name, "internal_error")
    ELSE LET timed == Timed(c, "mcp.validation.duration_ms", DatabaseLabels(name))
         IN IF sanity = "invalid"
            THEN Faulted(Inc(timed, "mcp.validation.failed", DatabaseLabels(name)),
                         database, name, "result_validation_failed")
            ELSE Answered(
                     Finally(Observed(Inc(Inc(timed, "mcp.validation.success",
                                              DatabaseLabels(name)),
                                          "mcp.query.success", DatabaseLabels(name)),
                                      "mcp.sql.execution.rows", rows, DatabaseLabels(name)),
                             database),
                     None)

\* The calls of query(), in the order they are made
ToolCalls == 1..MaxRequests
IdleCall == [pc |-> "idle", database |-> None, name |-> "", rows |-> 0, error |-> ""]

ToolInit ==
    /\ in_sql = NoSql /\ in_policy = Policy("", <<>>, {}, FALSE, FALSE, 0)
    /\ validation = <<>> /\ formatted = <<>> /\ security = <<>>
    /\ \E settings \in Settings :
          /\ load_on_startup = settings.load_on_startup
          /\ default_database = settings.default_database
          /\ explain_cfg = settings.explain_cfg
    /\ IdleRequest
    /\ rl_config = RateLimitConfig(TRUE, MaxRequestsPerWindow, TimeWindow)
    /\ records = [k \in {} |-> <<>>] /\ now = 0
    /\ IdleTasks /\ IdleParts
    /\ \E enabled \in BOOLEAN :
          collector = Collector(CollectorConfig(enabled, TRUE, TRUE, TRUE),
                                NoMetrics, NoMetrics, NoMetrics, NoMetrics, 0, <<>>)
    /\ server = [calls |-> 0, call |-> [k \in ToolCalls |-> IdleCall]]

\* What a step of call k leaves in the collector and in the call
Stepped(k, step) ==
    /\ collector' = step.collector
    /\ server' = [server EXCEPT !.call[k].pc = step.pc, !.call[k].error = step.error]

\* query() is called, while earlier calls may wait at their awaits: it runs
\* to the await of generate_sql or to its return
ToolQuery ==
    /\ server.calls < MaxRequests
    /\ \E database \in {None, "", "main", "guarded", "ghost"},
          query \in {"question", None}, current_time \in now..MaxTime,
          processing \in {"return", "ValueError", "Exception"} :
          LET k == server.calls + 1
              started == QueryTool(collector, records, database, query, current_time,
                                   processing)
          IN /\ collector' = started.step.collector
             /\ records' = started.records
             /\ now' = current_time
             /\ server' = [calls |-> k,
                           call |-> [server.call EXCEPT ![k] =
                                        [pc |-> started.step.pc, database |-> database,
                                         name |-> GetDatabaseName(database), rows |-> 0,
                                         error |-> started.step.error]]]
    /\ UNCHANGED <<sqlvars, cfgvars, reqvars, taskvars, partvars>>

\* generate_sql returns to call k or raises
ToolGenerated(k) ==
    /\ server.call[k].pc = "generation"
    /\ \E generation \in {"ok", "raise"}, checked \in {"valid", "invalid", "raise"} :
          Stepped(k, GenerationStage(collector, server.call[k].database,
                                     server.call[k].name, generation, checked))
    /\ UNCHANGED <<sqlvars, cfgvars, reqvars, rlvars, taskvars, partvars>>

\* execute_query returns to call k or raises
ToolExecuted(k) ==
    /\ server.call[k].pc = "execution"
    /\ \E execution \in {"ok", "raise"}, rows \in 0..MaxRowsFetched :
          LET step == ExecutionStage(collector, server.call[k].database,
                                     server.call[k].name, execution, rows)
          IN /\ collector' = step.collector
             /\ server' = [server EXCEPT !.call[k].pc = step.pc,
                                         !.call[k].error = step.error,
                                         !.call[k].rows = rows]
    /\ UNCHANGED <<sqlvars, cfgvars, reqvars, rlvars, taskvars, partvars>>

\* validate_results returns to call k or raises
ToolValidated(k) ==
    /\ server.call[k].pc = "validation"
    /\ \E sanity \in {"valid", "invalid", "raise"} :
          Stepped(k, ValidationStage(collector, server.call[k].database,
                                     server.call[k].name, server.call[k].rows, sanity))
    /\ UNCHANGED <<sqlvars, cfgvars, reqvars, rlvars, taskvars, partvars>>

ToolNext ==
    \/ ToolQuery
    \/ \E k \in ToolCalls : ToolGenerated(k) \/ ToolExecuted(k) \/ ToolValidated(k)

SpecTool == ToolInit /\ [][ToolNext]_vars

\* Every call of query() made so far has returned
AllReturned == \A k \in ToolCalls : server.call[k].pc \in {"idle", "returned"}

\* The sum of the counters of a metric over its labels
RECURSIVE SumOver(_, _)
SumOver(counters, keys) ==
    IF keys = {} THEN 0
    ELSE LET key == CHOOSE k \in keys : TRUE
         IN counters[key] + SumOver(counters, keys \ {key})

Total(counters, metric) ==
    SumOver(counters, {k \in DOMAIN counters : k[1] = metric})

\* C32: once the calls made have returned, for each stage and each
\* database the stage's total counter is the sum of its success counter
\* and its error (or failed) counter
C32_StageTotalsBalance ==
    AllReturned =>
    \A database \in Range(DatabaseNames) :
       LET count(metric) ==
               GetCounter(collector.counters, MakeKey(metric, DatabaseLabels(database)))
       IN /\ count("mcp.sql.generation.total") =
                count("mcp.sql.generation.success") + count("mcp.sql.generation.error")
          /\ count("mcp.sql.execution.total") =
                count("mcp.sql.execution.success") + count("mcp.sql.execution.error")
          /\ count("mcp.validation.total") =
                count("mcp.validation.success") + count("mcp.validation.failed")

\* C33: once the calls made have returned, query.total counts them all
\* and is the sum, over the labels, of query.success and query.error
C33_QueryTotalsBalance ==
    AllReturned =>
        /\ collector.config.enabled =>
              Total(collector.counters, "mcp.query.total") = server.calls
        /\ Total(collector.counters, "mcp.query.total") =
              Total(collector.counters, "mcp.query.success")
              + Total(collector.counters, "mcp.query.error")


\* ----------------------------------------------------------- SpecServer
\* ensure_initialized called by concurrent tasks, and list_databases.
Callers == 1..MaxCallers

\* The names ensure_initialized declares global; an assignment to any other
\* name in its body binds a local variable
Globals == {"result_validator", "rate_limiter", "metrics_collector",
            "_initialized", "_init_lock"}

\* The module-level value of `name` after the body assigned `new` to it
AssignGlobal(name, old, new) == IF name \in Globals THEN new ELSE old

\* Inside the lock: if _initialized: return
Recheck(initialized) == initialized

\* A caller: where it is, the database its loop is at, whether it had to
\* wait for the lock, and what list_databases answered it
IdleCaller == [pc |-> "idle", i |-> 0, waited |-> FALSE, listed |-> <<>>]

\* The body up to its first await, entered with the lock held: the
\* components are built, db_manager = MultiDatabaseExecutorManager(), and
\* add_database of the first database is awaited
EnterBody(srv, c) ==
    [srv EXCEPT !.lock = c,
                !.db_manager = AssignGlobal("db_manager", @, <<<<>>>>),
                !.callers[c] = [@ EXCEPT !.pc = "add", !.i = 1]]

\* The body raised: the lock is released and the caller's tool call fails
BodyRaised(srv, c) ==
    [srv EXCEPT !.lock = 0, !.failed = @ + 1,
                !.callers[c] = [@ EXCEPT !.pc = "raised"]]

\* The rest of one pass of `for db_config in settings.databases` once the
\* awaits of database number i have returned, and what follows the loop
DatabaseReady(srv, c) ==
    LET i == srv.callers[c].i
        registered == [srv EXCEPT !.processors = @ \cup {DatabaseNames[i]}]
    IN IF i < Len(DatabaseNames)
       THEN [registered EXCEPT !.callers[c] = [@ EXCEPT !.pc = "add", !.i = i + 1]]
       ELSE [registered EXCEPT
                !.initialized = AssignGlobal("_initialized", @, TRUE),
                !.completed = @ + 1,
                !.lock = 0,
                !.callers[c] = [@ EXCEPT !.pc = "returned"]]

\* list_databases once ensure_initialized has returned; db_manager is <<>>
\* for None, else <<the names of its executors, in the order of the dict>>
ListDatabases(db_manager) ==
    IF db_manager = <<>>
    THEN [error |-> "internal_error", databases |-> <<>>, default_database |-> None]
    ELSE [error |-> None, databases |-> db_manager[1],
          default_database |-> IF Truthy(default_database) THEN default_database
                               ELSE IF db_manager[1] # <<>> THEN db_manager[1][1]
                               ELSE None]

ServerInit ==
    /\ in_sql = NoSql /\ in_policy = Policy("", <<>>, {}, FALSE, FALSE, 0)
    /\ validation = <<>> /\ formatted = <<>> /\ security = <<>>
    /\ load_on_startup \in BOOLEAN /\ default_database \in {None, "", "main"}
    /\ explain_cfg = Explain(FALSE, FALSE, 0)
    /\ IdleRequest
    /\ rl_config = RateLimitConfig(TRUE, MaxRequestsPerWindow, TimeWindow)
    /\ records = [k \in {} |-> <<>>] /\ now = 0
    /\ IdleTasks /\ IdleParts
    /\ collector = <<>>
    /\ server = [initialized |-> FALSE, lock |-> 0, waiters |-> <<>>,
                 db_manager |-> <<>>,
                 processors |-> {}, pools |-> [n \in Range(DatabaseNames) |-> 0],
                 completed |-> 0, failed |-> 0,
                 callers |-> [c \in Callers |-> IdleCaller]]

\* asyncio.Lock.acquire up to its await: the lock is taken at once only
\* when it is free and no waiter is queued; else the caller joins the queue
Queues(srv) == srv.lock # 0 \/ srv.waiters # <<>>

\* A tool is called: ensure_initialized up to its first await
ServerCall(c) ==
    /\ server.callers[c].pc = "idle"
    /\ server' = IF server.initialized
                 THEN [server EXCEPT !.callers[c] = [@ EXCEPT !.pc = "returned"]]
                 ELSE IF Queues(server)
                 THEN [server EXCEPT !.waiters = Append(@, c),
                                     !.callers[c] = [@ EXCEPT !.pc = "wait", !.waited = TRUE]]
                 ELSE EnterBody(server, c)
    /\ UNCHANGED <<sqlvars, cfgvars, reqvars, rlvars, taskvars, partvars, collector>>

\* async with _init_lock: release woke the first waiter of the queue, which
\* leaves the queue and holds the lock when it runs; on an initialized
\* server it returns, releasing the lock to the next waiter
ServerAcquire(c) ==
    /\ server.callers[c].pc = "wait"
    /\ server.lock = 0
    /\ server.waiters # <<>> /\ Head(server.waiters) = c
    /\ LET woken == [server EXCEPT !.waiters = Tail(@)]
       IN server' = IF Recheck(server.initialized)
                    THEN [woken EXCEPT !.callers[c] = [@ EXCEPT !.pc = "returned"]]
                    ELSE EnterBody(woken, c)
    /\ UNCHANGED <<sqlvars, cfgvars, reqvars, rlvars, taskvars, partvars, collector>>

\* await db_manager.add_database(...) returns with a new pool, or raises
ServerAdd(c) ==
    /\ server.callers[c].pc = "add"
    /\ \E added \in BOOLEAN :
          LET name == DatabaseNames[server.callers[c].i]
              pooled == [server EXCEPT
                            !.pools[name] = @ + 1,
                            !.db_manager = IF @ = <<>> \/ name \in Range(@[1]) THEN @
                                           ELSE <<Append(@[1], name)>>]
          IN server' = IF ~added THEN BodyRaised(server, c)
                       ELSE IF load_on_startup
                       THEN [pooled EXCEPT !.callers[c] = [@ EXCEPT !.pc = "load"]]
                       ELSE DatabaseReady(pooled, c)
    /\ UNCHANGED <<sqlvars, cfgvars, reqvars, rlvars, taskvars, partvars, collector>>

\* await schema_cache.load_schema() returns or raises
ServerLoad(c) ==
    /\ server.callers[c].pc = "load"
    /\ \E loaded \in BOOLEAN :
          server' = IF loaded THEN DatabaseReady(server, c) ELSE BodyRaised(server, c)
    /\ UNCHANGED <<sqlvars, cfgvars, reqvars, rlvars, taskvars, partvars, collector>>

\* The rest of list_databases after its ensure_initialized returned
ServerListDatabases(c) ==
    /\ server.callers[c].pc = "returned"
    /\ server.callers[c].listed = <<>>
    /\ server' = [server EXCEPT !.callers[c].listed = <<ListDatabases(server.db_manager)>>]
    /\ UNCHANGED <<sqlvars, cfgvars, reqvars, rlvars, taskvars, partvars, collector>>

ServerNext ==
    \E c \in Callers :
        ServerCall(c) \/ ServerAcquire(c) \/ ServerAdd(c) \/ ServerLoad(c)
        \/ ServerListDatabases(c)

SpecServer == ServerInit /\ [][ServerNext]_vars

\* C36: once initialization has completed, list_databases answers with
\* one entry for each database of the registry and the default database,
\* never with an error
C36_ListDatabasesAnswers ==
    \A c \in Callers :
        server.callers[c].listed # <<>> =>
            /\ server.callers[c].listed[1].error = None
            /\ Range(server.callers[c].listed[1].databases) = Range(DatabaseNames)

\* C40: the body of ensure_initialized completes at most once, a caller
\* that has returned from it finds the server initialized with a processor
\* for every database, no two callers are in the body together, and each
\* database gets at most one pool, exactly one once initialization has
\* completed
C40_InitializedOnceBeforeReturn ==
    /\ server.completed <= 1
    /\ \A c \in Callers :
          server.callers[c].pc = "returned" =>
              /\ server.initialized
              /\ server.completed = 1
              /\ server.processors = Range(DatabaseNames)
    /\ \A c, d \in Callers :
          (server.callers[c].pc \in {"add", "load"} /\ server.callers[d].pc \in {"add", "load"})
              => c = d
    /\ \A n \in Range(DatabaseNames) :
          /\ server.pools[n] <= 1
          /\ server.initialized => server.pools[n] = 1

\* ============================================ access levels and stars
\* SQLAccessControlRewriter.rewrite_and_validate over star projections and
\* over tables whose access level is none.

\* The tables a projection item of statement i draws its columns from: the
\* owning table of a column reference, every table of the FROM for a bare *.
StarTables(tree, i) ==
    {t \in Range(tree[i].tables) : tree[i].star}
    \cup {t \in Range(tree[i].tables) :
             \E c \in Range(tree[i].cols) :
                 c.name = "*" /\ OwningTable(tree, i, c) = <<t>>}

\* C37: an accepted query returns no denied column of a table it reads:
\* no column reference of it names a denied column of its owning table, and
\* no `*` or `table.*` of it expands over a table that has denied columns.
C37_AcceptedReturnsNoDeniedColumn ==
    (security # <<>> /\ security[1].is_valid) =>
        \A i \in DOMAIN in_sql.tree :
            /\ \A t \in StarTables(in_sql.tree, i) :
                   GetDeniedColumns(in_policy, DeclaredSchema(t), t.name) = {}
            /\ \A c \in Range(in_sql.tree[i].cols) :
                   LET own == OwningTable(in_sql.tree, i, c)
                   IN own # <<>> =>
                          c.name \notin GetDeniedColumns(
                              in_policy, DeclaredSchema(own[1]), own[1].name)

\* The access level of a table: that of its rule, else the policy's default
AccessLevelOf(policy, schema, table) ==
    IF \E i \in DOMAIN policy.table_rules :
           /\ policy.table_rules[i].schema = schema
           /\ policy.table_rules[i].table = table
    THEN GetTableAccess(policy, schema, table).access_level
    ELSE policy.default_access

\* C38: a query referencing a table whose access level is none, by its rule
\* or by the policy's default when it has no rule, is rejected.
C38_NoAccessTableRejected ==
    (security # <<>> /\ Parses(in_sql)) =>
        \A n \in Range(TableNodes(in_sql.tree)) :
            LET t == TableAt(in_sql.tree, n)
            IN AccessLevelOf(in_policy, DeclaredSchema(t), t.name) = "none" =>
                   ~security[1].is_valid
====
